---------------------------- MODULE Spec2Model ----------------------------
(***************************************************************************)
(* The per-day simulation state machine of the DCA backtesting engine      *)
(* (src/app.py, calculate_dca_core and the handlers it calls).             *)
(*                                                                         *)
(* Numbers.  The program computes with Python floats.  The model computes  *)
(* with exact rationals: a number is a pair <<n, d>> with d > 0 in lowest  *)
(* terms.  Python's None where a number is expected (the "infinite cash"   *)
(* sentinel, an absent threshold or withdrawal amount) is the pair         *)
(* <<0, 0>>, which is no rational.  Float rounding is not modelled.        *)
(***************************************************************************)
EXTENDS Integers, Sequences, FiniteSets, TLC

(***************************************************************************)
(* Exact rational arithmetic.  The primitives are functions, so that an    *)
(* operand is evaluated once, before the primitive is applied to it.       *)
(***************************************************************************)
Abs(x) == IF x < 0 THEN -x ELSE x

GCD[a \in Nat, b \in Nat] == IF b = 0 THEN a ELSE GCD[b, a % b]

Norm[n \in Int, d \in Nat] == <<n \div GCD[Abs(n), d], d \div GCD[Abs(n), d]>>

Pair == Int \X Nat

R(n) == <<n, 1>>
Zero == <<0, 1>>
One == <<1, 1>>
None == <<0, 0>>
IsNone(x) == x = None

\* What an expression that raises leaves behind: a division by zero
\* (ZeroDivisionError) or arithmetic on None (TypeError).  It is no number,
\* arithmetic on it gives it again, and it cannot be compared.
Fault == <<1, 0>>

\* float('inf'), the start of a running minimum
Infinity == <<1, 0>>
Number == Int \X (Nat \ {0})

RatAdd[a \in Pair, b \in Pair] ==
    IF a[2] = 0 \/ b[2] = 0 THEN Fault
    ELSE LET g == GCD[a[2], b[2]]
         IN  Norm[a[1] * (b[2] \div g) + b[1] * (a[2] \div g),
                  (a[2] \div g) * b[2]]
RatNeg[a \in Pair] == IF a[2] = 0 THEN Fault ELSE <<-a[1], a[2]>>
RatMul[a \in Pair, b \in Pair] ==
    IF a[2] = 0 \/ b[2] = 0 THEN Fault
    ELSE LET g1 == GCD[Abs(a[1]), b[2]]
             g2 == GCD[Abs(b[1]), a[2]]
         IN  Norm[(a[1] \div g1) * (b[1] \div g2),
                  (a[2] \div g2) * (b[2] \div g1)]
RatInv[b \in Pair] ==
    IF b[1] = 0 THEN Fault
    ELSE IF b[1] > 0 THEN <<b[2], b[1]>> ELSE <<-b[2], -b[1]>>
RatLe[a \in Number, b \in Number] ==
    LET g == GCD[a[2], b[2]]
    IN  a[1] * (b[2] \div g) <= b[1] * (a[2] \div g)
RatMax[a \in Pair, b \in Pair] == IF RatLe[a, b] THEN b ELSE a
RatMin[a \in Pair, b \in Pair] == IF RatLe[a, b] THEN a ELSE b

RAdd(a, b) == RatAdd[a, b]
RNeg(a) == RatNeg[a]
RSub(a, b) == RatAdd[a, RatNeg[b]]
RMul(a, b) == RatMul[a, b]
\* a / b, a Fault for b = 0
RDiv(a, b) == RatMul[a, RatInv[b]]
RLe(a, b) == RatLe[a, b]
RLt(a, b) == ~RatLe[b, a]
RGe(a, b) == RatLe[b, a]
RGt(a, b) == ~RatLe[a, b]
RMax(a, b) == RatMax[a, b]
RMin(a, b) == RatMin[a, b]

(***************************************************************************)
(* A local variable of the program: e is computed once, and F is the code  *)
(* that follows the assignment, reading the variable.                      *)
(***************************************************************************)
Let(e, F(_)) == CHOOSE r \in {F(v) : v \in {e}} : TRUE

(***************************************************************************)
(* Program constants (src/app.py, lines 16-21)                             *)
(***************************************************************************)
MARGIN_INTEREST_MARKUP == <<1, 200>>
MONTHS_PER_YEAR == 12

\* max(0, cash_balance) if cash_balance is not None else 0
SafeCashOf[cash_balance \in Pair] ==
    IF IsNone(cash_balance) THEN Zero ELSE RMax(Zero, cash_balance)
SafeCash(cash_balance) == SafeCashOf[cash_balance]

\* (current_balance if current_balance else 0): None and 0 both give 0
CashOrZeroOf[current_balance \in Pair] ==
    IF IsNone(current_balance) THEN Zero ELSE current_balance
CashOrZero(current_balance) == CashOrZeroOf[current_balance]

(***************************************************************************)
(* Pure calculation functions                                              *)
(***************************************************************************)
\* Faulty variant: the price is not looked at before dividing by it.
shares_bought_at_any_price(investment_amount, price_per_share) == RDiv(investment_amount, price_per_share)

calculate_shares_bought(investment_amount, price_per_share) ==
    IF RLe(price_per_share, Zero) THEN Zero
    ELSE RDiv(investment_amount, price_per_share)

\* Faulty variant: one share more than is held is paid a dividend.
dividend_income_with_a_bonus_share(total_shares, dividend_per_share) == RMul(RAdd(total_shares, One), dividend_per_share)

calculate_dividend_income(total_shares, dividend_per_share) ==
    RMul(total_shares, dividend_per_share)

\* Faulty variant: a whole year's interest is charged for the month.
annual_interest_for_a_month(borrowed_amount, fed_funds_rate) ==
    RMul(borrowed_amount, RAdd(fed_funds_rate, MARGIN_INTEREST_MARKUP))

calculate_monthly_interest(borrowed_amount, fed_funds_rate) ==
    LET annual_rate == RAdd(fed_funds_rate, MARGIN_INTEREST_MARKUP)
        monthly_rate == RDiv(annual_rate, R(MONTHS_PER_YEAR))
    IN  RMul(borrowed_amount, monthly_rate)

calculate_equity_ratio(portfolio_value, cash_balance, debt) ==
    IF RLe(portfolio_value, Zero) THEN Zero
    ELSE RDiv(RSub(RAdd(portfolio_value, SafeCash(cash_balance)), debt),
              portfolio_value)

check_insolvency(portfolio_value, cash_balance, debt) ==
    RLe(RSub(RAdd(portfolio_value, SafeCash(cash_balance)), debt), Zero)

\* Faulty variant: the division by (1 - maintenance_margin) is forgotten.
target_without_margin_division(borrowed_amount, cash_balance, maintenance_margin) ==
    RSub(borrowed_amount, SafeCash(cash_balance))

\* Faulty variant: (1 - maintenance_margin) multiplies instead of dividing.
target_times_margin_complement(borrowed_amount, cash_balance, maintenance_margin) ==
    RMul(RSub(borrowed_amount, SafeCash(cash_balance)),
         RSub(One, maintenance_margin))

calculate_target_portfolio_for_margin_call(borrowed_amount, cash_balance, maintenance_margin) ==
    RDiv(RSub(borrowed_amount, SafeCash(cash_balance)),
         RSub(One, maintenance_margin))

\* Faulty variant: the margin debt is left out of the cash to raise.
shares_to_sell_ignoring_debt(withdrawal_amount, margin_debt, cash_balance, current_price) ==
    Let(RMax(Zero, CashOrZero(cash_balance)), LAMBDA available_cash :
    Let(IF RGt(current_price, Zero)
        THEN RDiv(RMax(Zero, RSub(withdrawal_amount, available_cash)),
                  current_price)
        ELSE Zero, LAMBDA shares_to_sell :
        [shares_to_sell |-> shares_to_sell,
         debt_repayment |-> Zero,
         actual_withdrawal |->
             RMin(RAdd(available_cash, RMul(shares_to_sell, current_price)),
                  withdrawal_amount)]))

calculate_shares_to_sell_for_withdrawal(withdrawal_amount, margin_debt, cash_balance, current_price) ==
    Let(RMax(Zero, CashOrZero(cash_balance)), LAMBDA available_cash :
    Let(RMax(Zero, RSub(RAdd(margin_debt, withdrawal_amount), available_cash)),
        LAMBDA cash_from_sales_needed :
    Let(IF RGt(current_price, Zero)
        THEN RDiv(cash_from_sales_needed, current_price)
        ELSE Zero, LAMBDA shares_to_sell :
    Let(RAdd(available_cash, RMul(shares_to_sell, current_price)),
        LAMBDA total_cash :
    Let(RMin(total_cash, margin_debt), LAMBDA debt_repayment :
        [shares_to_sell |-> shares_to_sell,
         debt_repayment |-> debt_repayment,
         actual_withdrawal |->
             RMin(RSub(total_cash, debt_repayment), withdrawal_amount)])))))

(***************************************************************************)
(* Analytics functions.                                                    *)
(***************************************************************************)
\* Faulty variant: the return is the final value as a percentage of the
\* initial value.
final_value_as_percent_of_initial(initial_value, final_value) ==
    IF RLe(initial_value, Zero) THEN Zero
    ELSE RMul(RDiv(final_value, initial_value), R(100))

calculate_total_return_percent(initial_value, final_value) ==
    IF RLe(initial_value, Zero) THEN Zero
    ELSE RMul(RDiv(RSub(final_value, initial_value), initial_value), R(100))

DAYS_PER_YEAR == 365

\* pow(x, y): x comes from the closes of the price frame and is a NumPy
\* float, for which a negative base with an exponent that is not a whole
\* number gives nan (with a warning), no exception.
PowIsNan(x, y) == RLt(x, Zero) /\ y[2] # 1

\* The value is a root, which the rationals do not have: the model keeps
\* the operands of pow and whether the result is a number.
calculate_cagr(initial_value, final_value, num_days) ==
    IF RLe(initial_value, Zero) \/ num_days <= 0
    THEN [nan |-> FALSE, base |-> One, exponent |-> Zero]
    ELSE Let(RDiv(R(num_days), R(DAYS_PER_YEAR)), LAMBDA years :
         Let(RDiv(final_value, initial_value), LAMBDA base :
             [nan |-> PowIsNan(base, RDiv(One, years)),
              base |-> base,
              exponent |-> RDiv(One, years)]))

\* The state of the loop of calculate_max_drawdown before its first
\* iteration
DrawdownStart(portfolio_values) ==
    [max_drawdown |-> Zero, peak_value |-> portfolio_values[1], peak_idx |-> 0, max_dd_peak_idx |-> 0, max_dd_trough_idx |-> 0]

\* Faulty variant: a drawdown that equals the maximum so far replaces it.
drawdown_iteration_taking_ties(st, i, value) ==
    Let(IF RGt(value, st.peak_value)
        THEN [st EXCEPT !.peak_value = value, !.peak_idx = i]
        ELSE st, LAMBDA s :
        IF /\ RGt(s.peak_value, Zero)
           /\ RLe(RDiv(RSub(value, s.peak_value), s.peak_value),
                  s.max_drawdown)
        THEN [s EXCEPT !.max_drawdown =
                           RDiv(RSub(value, s.peak_value), s.peak_value),
                       !.max_dd_peak_idx = s.peak_idx,
                       !.max_dd_trough_idx = i]
        ELSE s)

\* One iteration of the loop, for index i (from 0) and its value
DrawdownIteration(st, i, value) ==
    Let(IF RGt(value, st.peak_value)
        THEN [st EXCEPT !.peak_value = value, !.peak_idx = i]
        ELSE st, LAMBDA s :
        IF /\ RGt(s.peak_value, Zero)
           /\ RLt(RDiv(RSub(value, s.peak_value), s.peak_value),
                  s.max_drawdown)
        THEN [s EXCEPT !.max_drawdown =
                           RDiv(RSub(value, s.peak_value), s.peak_value),
                       !.max_dd_peak_idx = s.peak_idx,
                       !.max_dd_trough_idx = i]
        ELSE s)

RECURSIVE DrawdownLoop(_, _, _)
DrawdownLoop(portfolio_values, i, st) ==
    IF i = Len(portfolio_values) THEN st
    ELSE DrawdownLoop(portfolio_values, i + 1,
                      DrawdownIteration(st, i, portfolio_values[i + 1]))

calculate_max_drawdown(portfolio_values) ==
    IF Len(portfolio_values) < 2
    THEN [max_drawdown |-> Zero, peak_idx |-> 0, trough_idx |-> 0]
    ELSE Let(DrawdownLoop(portfolio_values, 0,
                          DrawdownStart(portfolio_values)), LAMBDA st :
             [max_drawdown |-> RMul(st.max_drawdown, R(100)),
              peak_idx |-> st.max_dd_peak_idx,
              trough_idx |-> st.max_dd_trough_idx])

\* Python's round(v, 2) on the exact value: the nearest multiple of 1/100,
\* the even one of the two nearest when v is half-way between them.
Round2(v) ==
    Let(RMul(v, R(100)), LAMBDA h :
    Let(h[1] \div h[2], LAMBDA floor :
    Let(2 * (h[1] % h[2]), LAMBDA twice_rest :
        Norm[IF twice_rest < h[2] THEN floor
             ELSE IF twice_rest > h[2] THEN floor + 1
             ELSE IF floor % 2 = 0 THEN floor ELSE floor + 1, 100])))

\* Python's round(v, 4), likewise on multiples of 1/10000
Round4(v) ==
    Let(RMul(v, R(10000)), LAMBDA h :
    Let(h[1] \div h[2], LAMBDA floor :
    Let(2 * (h[1] % h[2]), LAMBDA twice_rest :
        Norm[IF twice_rest < h[2] THEN floor
             ELSE IF twice_rest > h[2] THEN floor + 1
             ELSE IF floor % 2 = 0 THEN floor ELSE floor + 1, 10000])))

(***************************************************************************)
(* Domain logic functions (event handlers)                                 *)
(***************************************************************************)
process_dividend(total_shares, dividend_per_share, price, reinvest, current_balance, total_cost_basis) ==
    Let(calculate_dividend_income(total_shares, dividend_per_share),
        LAMBDA dividend_income :
        IF reinvest
        THEN [shares_added |-> calculate_shares_bought(dividend_income, price),
              new_cost_basis |-> RAdd(total_cost_basis, dividend_income),
              new_balance |-> current_balance,
              dividend_income |-> dividend_income]
        ELSE [shares_added |-> Zero,
              new_cost_basis |-> total_cost_basis,
              new_balance |-> IF IsNone(current_balance) THEN None
                              ELSE RAdd(current_balance, dividend_income),
              dividend_income |-> dividend_income])

\* Faulty variant: the whole charge is taken from cash, also when cash is
\* short of it.
interest_charge_always_from_cash(borrowed_amount, fed_rate, current_balance) ==
    Let(calculate_monthly_interest(borrowed_amount, fed_rate),
        LAMBDA interest_charge :
        [new_balance |-> IF IsNone(current_balance) THEN None
                         ELSE RSub(current_balance, interest_charge),
         new_borrowed_amount |-> borrowed_amount,
         interest_charge |-> interest_charge])

\* Faulty variant: when the cash is short the whole charge goes to the debt,
\* the cash that was paid included.
interest_charge_capitalised_whole(borrowed_amount, fed_rate, current_balance) ==
    Let(calculate_monthly_interest(borrowed_amount, fed_rate),
        LAMBDA interest_charge :
        IF IsNone(current_balance)
        THEN [new_balance |-> None,
              new_borrowed_amount |-> borrowed_amount,
              interest_charge |-> interest_charge]
        ELSE IF RGe(current_balance, interest_charge)
        THEN [new_balance |-> RMax(Zero, RSub(current_balance, interest_charge)),
              new_borrowed_amount |-> borrowed_amount,
              interest_charge |-> interest_charge]
        ELSE LET paid_from_cash == RMax(Zero, current_balance)
                 unpaid_interest == interest_charge
             IN  [new_balance |-> Zero,
                  new_borrowed_amount |-> RAdd(borrowed_amount, unpaid_interest),
                  interest_charge |-> interest_charge])

process_interest_charge(borrowed_amount, fed_rate, current_balance) ==
    Let(calculate_monthly_interest(borrowed_amount, fed_rate),
        LAMBDA interest_charge :
        IF IsNone(current_balance)
        THEN [new_balance |-> None,
              new_borrowed_amount |-> borrowed_amount,
              interest_charge |-> interest_charge]
        ELSE IF RGe(current_balance, interest_charge)
        THEN [new_balance |-> RMax(Zero, RSub(current_balance, interest_charge)),
              new_borrowed_amount |-> borrowed_amount,
              interest_charge |-> interest_charge]
        ELSE LET paid_from_cash == RMax(Zero, current_balance)
                 unpaid_interest == RSub(interest_charge, paid_from_cash)
             IN  [new_balance |-> Zero,
                  new_borrowed_amount |-> RAdd(borrowed_amount, unpaid_interest),
                  interest_charge |-> interest_charge])

\* Faulty variant: without margin the shortfall of cash is borrowed too.
purchase_amounts_borrowing_any_shortfall(daily_investment, price, current_balance, borrowed_amount, margin_ratio, total_shares) ==
    IF RGt(margin_ratio, One)
    THEN IF RGe(current_balance, daily_investment)
         THEN [actual_investment |-> daily_investment,
               cash_used |-> daily_investment,
               margin_borrowed |-> Zero]
         ELSE Let(RMul(total_shares, price), LAMBDA current_portfolio_value :
              Let(RSub(RAdd(current_portfolio_value,
                            RMax(Zero, current_balance)), borrowed_amount),
                  LAMBDA current_equity :
              Let(RMax(Zero, RSub(RMul(current_equity, margin_ratio),
                                  current_portfolio_value)),
                  LAMBDA max_investment_capacity :
                  IF RLe(daily_investment, max_investment_capacity)
                  THEN [actual_investment |-> daily_investment,
                        cash_used |-> RMax(Zero, current_balance),
                        margin_borrowed |->
                            RSub(daily_investment, RMax(Zero, current_balance))]
                  ELSE Let(RMin(max_investment_capacity,
                                RMax(Zero, current_balance)),
                           LAMBDA cash_used :
                           [actual_investment |-> max_investment_capacity,
                            cash_used |-> cash_used,
                            margin_borrowed |->
                                RSub(max_investment_capacity, cash_used)]))))
    ELSE IF RGe(current_balance, daily_investment)
         THEN [actual_investment |-> daily_investment,
               cash_used |-> daily_investment,
               margin_borrowed |-> Zero]
         ELSE [actual_investment |-> daily_investment,
               cash_used |-> RMax(Zero, current_balance),
               margin_borrowed |->
                   RSub(daily_investment, RMax(Zero, current_balance))]

\* Faulty variant: a contribution within the buying power is borrowed whole,
\* the cash is left alone.
purchase_amounts_borrowing_before_cash(daily_investment, price, current_balance, borrowed_amount, margin_ratio, total_shares) ==
    IF RGt(margin_ratio, One)
    THEN IF RGe(current_balance, daily_investment)
         THEN [actual_investment |-> daily_investment,
               cash_used |-> daily_investment,
               margin_borrowed |-> Zero]
         ELSE Let(RMul(total_shares, price), LAMBDA current_portfolio_value :
              Let(RSub(RAdd(current_portfolio_value,
                            RMax(Zero, current_balance)), borrowed_amount),
                  LAMBDA current_equity :
              Let(RMax(Zero, RSub(RMul(current_equity, margin_ratio),
                                  current_portfolio_value)),
                  LAMBDA max_investment_capacity :
                  IF RLe(daily_investment, max_investment_capacity)
                  THEN [actual_investment |-> daily_investment,
                        cash_used |-> Zero,
                        margin_borrowed |-> daily_investment]
                  ELSE Let(RMin(max_investment_capacity,
                                RMax(Zero, current_balance)),
                           LAMBDA cash_used :
                           [actual_investment |-> max_investment_capacity,
                            cash_used |-> cash_used,
                            margin_borrowed |->
                                RSub(max_investment_capacity, cash_used)]))))
    ELSE IF RGe(current_balance, daily_investment)
         THEN [actual_investment |-> daily_investment,
               cash_used |-> daily_investment,
               margin_borrowed |-> Zero]
         ELSE [actual_investment |-> RMax(Zero, current_balance),
               cash_used |-> RMax(Zero, current_balance),
               margin_borrowed |-> Zero]

\* Faulty variant: without margin, a contribution the cash cannot cover is
\* skipped instead of investing the cash that is left.
purchase_amounts_skipping_a_short_contribution(daily_investment, price, current_balance, borrowed_amount, margin_ratio, total_shares) ==
    IF RGt(margin_ratio, One)
    THEN IF RGe(current_balance, daily_investment)
         THEN [actual_investment |-> daily_investment,
               cash_used |-> daily_investment,
               margin_borrowed |-> Zero]
         ELSE Let(RMul(total_shares, price), LAMBDA current_portfolio_value :
              Let(RSub(RAdd(current_portfolio_value,
                            RMax(Zero, current_balance)), borrowed_amount),
                  LAMBDA current_equity :
              Let(RMax(Zero, RSub(RMul(current_equity, margin_ratio),
                                  current_portfolio_value)),
                  LAMBDA max_investment_capacity :
                  IF RLe(daily_investment, max_investment_capacity)
                  THEN [actual_investment |-> daily_investment,
                        cash_used |-> RMax(Zero, current_balance),
                        margin_borrowed |->
                            RSub(daily_investment, RMax(Zero, current_balance))]
                  ELSE Let(RMin(max_investment_capacity,
                                RMax(Zero, current_balance)),
                           LAMBDA cash_used :
                           [actual_investment |-> max_investment_capacity,
                            cash_used |-> cash_used,
                            margin_borrowed |->
                                RSub(max_investment_capacity, cash_used)]))))
    ELSE IF RGe(current_balance, daily_investment)
         THEN [actual_investment |-> daily_investment,
               cash_used |-> daily_investment,
               margin_borrowed |-> Zero]
         ELSE [actual_investment |-> Zero,
               cash_used |-> Zero,
               margin_borrowed |-> Zero]

\* The amounts execute_purchase settles on before it computes shares and
\* balances: (actual_investment, cash_used, margin_borrowed), finite cash.
PurchaseAmounts(daily_investment, price, current_balance, borrowed_amount, margin_ratio, total_shares) ==
    IF RGt(margin_ratio, One)
    THEN IF RGe(current_balance, daily_investment)
         THEN [actual_investment |-> daily_investment,
               cash_used |-> daily_investment,
               margin_borrowed |-> Zero]
         ELSE Let(RMul(total_shares, price), LAMBDA current_portfolio_value :
              Let(RSub(RAdd(current_portfolio_value,
                            RMax(Zero, current_balance)), borrowed_amount),
                  LAMBDA current_equity :
              Let(RMax(Zero, RSub(RMul(current_equity, margin_ratio),
                                  current_portfolio_value)),
                  LAMBDA max_investment_capacity :
                  IF RLe(daily_investment, max_investment_capacity)
                  THEN [actual_investment |-> daily_investment,
                        cash_used |-> RMax(Zero, current_balance),
                        margin_borrowed |->
                            RSub(daily_investment, RMax(Zero, current_balance))]
                  ELSE Let(RMin(max_investment_capacity,
                                RMax(Zero, current_balance)),
                           LAMBDA cash_used :
                           [actual_investment |-> max_investment_capacity,
                            cash_used |-> cash_used,
                            margin_borrowed |->
                                RSub(max_investment_capacity, cash_used)]))))
    ELSE IF RGe(current_balance, daily_investment)
         THEN [actual_investment |-> daily_investment,
               cash_used |-> daily_investment,
               margin_borrowed |-> Zero]
         ELSE [actual_investment |-> RMax(Zero, current_balance),
               cash_used |-> RMax(Zero, current_balance),
               margin_borrowed |-> Zero]

\* Faulty variant: borrowed funds are taken off the principal used.
purchase_refunding_principal_when_borrowing(daily_investment, price, current_balance, borrowed_amount, margin_ratio, total_shares, available_principal) ==
    IF IsNone(current_balance)
    THEN [shares_bought |-> calculate_shares_bought(daily_investment, price),
          cash_used |-> daily_investment,
          margin_borrowed |-> Zero,
          actual_investment |-> daily_investment,
          principal_used |-> daily_investment,
          new_balance |-> None,
          new_borrowed_amount |-> borrowed_amount]
    ELSE Let(PurchaseAmounts(daily_investment, price, current_balance,
                             borrowed_amount, margin_ratio, total_shares),
             LAMBDA a :
             [shares_bought |->
                  IF RGt(a.actual_investment, Zero)
                  THEN calculate_shares_bought(a.actual_investment, price)
                  ELSE Zero,
              cash_used |-> a.cash_used,
              margin_borrowed |-> a.margin_borrowed,
              actual_investment |-> a.actual_investment,
              principal_used |->
                  RSub(RMin(a.cash_used, available_principal),
                       a.margin_borrowed),
              new_balance |-> RMax(Zero, RSub(current_balance, a.cash_used)),
              new_borrowed_amount |-> RAdd(borrowed_amount, a.margin_borrowed)])

\* Faulty variant: all cash used counts as principal, whatever principal
\* is left.
purchase_counting_all_cash_as_principal(daily_investment, price, current_balance, borrowed_amount, margin_ratio, total_shares, available_principal) ==
    IF IsNone(current_balance)
    THEN [shares_bought |-> calculate_shares_bought(daily_investment, price),
          cash_used |-> daily_investment,
          margin_borrowed |-> Zero,
          actual_investment |-> daily_investment,
          principal_used |-> daily_investment,
          new_balance |-> None,
          new_borrowed_amount |-> borrowed_amount]
    ELSE Let(PurchaseAmounts(daily_investment, price, current_balance,
                             borrowed_amount, margin_ratio, total_shares),
             LAMBDA a :
             [shares_bought |->
                  IF RGt(a.actual_investment, Zero)
                  THEN calculate_shares_bought(a.actual_investment, price)
                  ELSE Zero,
              cash_used |-> a.cash_used,
              margin_borrowed |-> a.margin_borrowed,
              actual_investment |-> a.actual_investment,
              principal_used |-> a.cash_used,
              new_balance |-> RMax(Zero, RSub(current_balance, a.cash_used)),
              new_borrowed_amount |-> RAdd(borrowed_amount, a.margin_borrowed)])

\* Faulty variant: with unbounded cash every purchase is levered up to the
\* margin ratio.
purchase_levered_with_unbounded_cash(daily_investment, price, current_balance, borrowed_amount, margin_ratio, total_shares, available_principal) ==
    IF IsNone(current_balance)
    THEN [shares_bought |->
              calculate_shares_bought(RMul(daily_investment, margin_ratio),
                                      price),
          cash_used |-> daily_investment,
          margin_borrowed |-> RMul(daily_investment, RSub(margin_ratio, One)),
          actual_investment |-> RMul(daily_investment, margin_ratio),
          principal_used |-> daily_investment,
          new_balance |-> None,
          new_borrowed_amount |->
              RAdd(borrowed_amount,
                   RMul(daily_investment, RSub(margin_ratio, One)))]
    ELSE Let(PurchaseAmounts(daily_investment, price, current_balance,
                             borrowed_amount, margin_ratio, total_shares),
             LAMBDA a :
             [shares_bought |->
                  IF RGt(a.actual_investment, Zero)
                  THEN calculate_shares_bought(a.actual_investment, price)
                  ELSE Zero,
              cash_used |-> a.cash_used,
              margin_borrowed |-> a.margin_borrowed,
              actual_investment |-> a.actual_investment,
              principal_used |->
                  IF RGt(a.cash_used, Zero)
                  THEN RMin(a.cash_used, available_principal)
                  ELSE Zero,
              new_balance |-> RMax(Zero, RSub(current_balance, a.cash_used)),
              new_borrowed_amount |-> RAdd(borrowed_amount, a.margin_borrowed)])

\* Faulty variant: the whole investment, borrowed money and dividend cash
\* included, counts as principal used.
purchase_counting_the_investment_as_principal(daily_investment, price, current_balance, borrowed_amount, margin_ratio, total_shares, available_principal) ==
    IF IsNone(current_balance)
    THEN [shares_bought |-> calculate_shares_bought(daily_investment, price),
          cash_used |-> daily_investment,
          margin_borrowed |-> Zero,
          actual_investment |-> daily_investment,
          principal_used |-> daily_investment,
          new_balance |-> None,
          new_borrowed_amount |-> borrowed_amount]
    ELSE Let(PurchaseAmounts(daily_investment, price, current_balance,
                             borrowed_amount, margin_ratio, total_shares),
             LAMBDA a :
             [shares_bought |->
                  IF RGt(a.actual_investment, Zero)
                  THEN calculate_shares_bought(a.actual_investment, price)
                  ELSE Zero,
              cash_used |-> a.cash_used,
              margin_borrowed |-> a.margin_borrowed,
              actual_investment |-> a.actual_investment,
              principal_used |->
                  IF RGt(a.cash_used, Zero)
                  THEN a.actual_investment
                  ELSE Zero,
              new_balance |-> RMax(Zero, RSub(current_balance, a.cash_used)),
              new_borrowed_amount |-> RAdd(borrowed_amount, a.margin_borrowed)])

execute_purchase(daily_investment, price, current_balance, borrowed_amount, margin_ratio, total_shares, available_principal) ==
    IF IsNone(current_balance)
    THEN [shares_bought |-> calculate_shares_bought(daily_investment, price),
          cash_used |-> daily_investment,
          margin_borrowed |-> Zero,
          actual_investment |-> daily_investment,
          principal_used |-> daily_investment,
          new_balance |-> None,
          new_borrowed_amount |-> borrowed_amount]
    ELSE Let(PurchaseAmounts(daily_investment, price, current_balance,
                             borrowed_amount, margin_ratio, total_shares),
             LAMBDA a :
             [shares_bought |->
                  IF RGt(a.actual_investment, Zero)
                  THEN calculate_shares_bought(a.actual_investment, price)
                  ELSE Zero,
              cash_used |-> a.cash_used,
              margin_borrowed |-> a.margin_borrowed,
              actual_investment |-> a.actual_investment,
              principal_used |->
                  IF RGt(a.cash_used, Zero)
                  THEN RMin(a.cash_used, available_principal)
                  ELSE Zero,
              new_balance |-> RMax(Zero, RSub(current_balance, a.cash_used)),
              new_borrowed_amount |-> RAdd(borrowed_amount, a.margin_borrowed)])

\* Faulty variant: a triggered call sells half of the position, whatever
\* the shortfall is.
margin_call_selling_half(total_shares, price, borrowed_amount, current_balance, maintenance_margin) ==
    IF RGe(calculate_equity_ratio(RMul(total_shares, price), current_balance,
                                  borrowed_amount), maintenance_margin)
    THEN [new_shares |-> total_shares,
          new_balance |-> current_balance,
          new_borrowed_amount |-> borrowed_amount,
          margin_call_triggered |-> FALSE]
    ELSE Let(RDiv(total_shares, R(2)), LAMBDA shares_to_sell :
         Let(RMin(RMul(shares_to_sell, price), borrowed_amount),
             LAMBDA debt_repayment :
             [new_shares |-> RSub(total_shares, shares_to_sell),
              new_balance |->
                  IF IsNone(current_balance) THEN None
                  ELSE RMax(Zero, RSub(RAdd(current_balance,
                                            RMul(shares_to_sell, price)),
                                       debt_repayment)),
              new_borrowed_amount |->
                  IF IsNone(current_balance) THEN borrowed_amount
                  ELSE RSub(borrowed_amount, debt_repayment),
              margin_call_triggered |-> TRUE]))

execute_margin_call(total_shares, price, borrowed_amount, current_balance, maintenance_margin) ==
    Let(RMul(total_shares, price), LAMBDA current_portfolio_value :
    Let(calculate_equity_ratio(current_portfolio_value, current_balance,
                               borrowed_amount), LAMBDA equity_ratio :
    Let(calculate_target_portfolio_for_margin_call(
            borrowed_amount, current_balance, maintenance_margin),
        LAMBDA target_portfolio_value :
        IF RGe(equity_ratio, maintenance_margin)
        THEN [new_shares |-> total_shares,
              new_balance |-> current_balance,
              new_borrowed_amount |-> borrowed_amount,
              margin_call_triggered |-> FALSE]
        ELSE IF /\ RGt(target_portfolio_value, Zero)
                /\ RLt(target_portfolio_value, current_portfolio_value)
        THEN Let(RMin(calculate_shares_bought(
                          RSub(current_portfolio_value, target_portfolio_value),
                          price),
                      total_shares), LAMBDA shares_to_sell :
             Let(RMul(shares_to_sell, price), LAMBDA sale_proceeds :
             Let(RMin(sale_proceeds, borrowed_amount), LAMBDA debt_repayment :
                 [new_shares |-> RSub(total_shares, shares_to_sell),
                  new_balance |->
                      IF IsNone(current_balance) THEN None
                      ELSE RMax(Zero, RSub(RAdd(current_balance, sale_proceeds),
                                           debt_repayment)),
                  new_borrowed_amount |->
                      IF IsNone(current_balance) THEN borrowed_amount
                      ELSE RSub(borrowed_amount, debt_repayment),
                  margin_call_triggered |-> TRUE])))
        ELSE Let(RAdd(CashOrZero(current_balance), RMul(total_shares, price)),
                 LAMBDA new_balance :
             Let(RMin(new_balance, borrowed_amount), LAMBDA debt_repayment :
                 [new_shares |-> Zero,
                  new_balance |->
                      IF IsNone(current_balance) THEN None
                      ELSE RMax(Zero, RSub(new_balance, debt_repayment)),
                  new_borrowed_amount |->
                      IF IsNone(current_balance) THEN borrowed_amount
                      ELSE RSub(borrowed_amount, debt_repayment),
                  margin_call_triggered |-> TRUE])))))

\* Faulty variant: the debt repayment is not capped by the debt.
withdrawal_repaying_with_all_cash(withdrawal_amount, total_shares, price, borrowed_amount, current_balance, total_cost_basis) ==
    Let(RMin(calculate_shares_to_sell_for_withdrawal(
                 withdrawal_amount, borrowed_amount, current_balance,
                 price).shares_to_sell,
             total_shares), LAMBDA shares_sold :
    Let(RAdd(CashOrZero(current_balance), RMul(shares_sold, price)),
        LAMBDA balance_after_sale :
    Let(balance_after_sale,
        LAMBDA actual_debt_repayment :
    Let(RSub(balance_after_sale, actual_debt_repayment),
        LAMBDA balance_after_repayment :
    Let(RMin(balance_after_repayment, withdrawal_amount),
        LAMBDA actual_withdrawal :
        [new_shares |-> RSub(total_shares, shares_sold),
         new_balance |-> IF IsNone(current_balance) THEN None
                         ELSE RSub(balance_after_repayment, actual_withdrawal),
         new_borrowed_amount |-> RSub(borrowed_amount, actual_debt_repayment),
         new_cost_basis |->
             IF RGt(total_shares, Zero)
             THEN RSub(total_cost_basis,
                       RMul(total_cost_basis,
                            RDiv(shares_sold, total_shares)))
             ELSE total_cost_basis,
         shares_sold |-> shares_sold,
         debt_repaid |-> actual_debt_repayment,
         amount_withdrawn |-> actual_withdrawal])))))

\* Faulty variant: the requested amount is set aside first and the debt is
\* repaid with what is left.
withdrawal_paid_before_the_debt(withdrawal_amount, total_shares, price, borrowed_amount, current_balance, total_cost_basis) ==
    Let(RMin(calculate_shares_to_sell_for_withdrawal(
                 withdrawal_amount, borrowed_amount, current_balance,
                 price).shares_to_sell,
             total_shares), LAMBDA shares_sold :
    Let(RAdd(CashOrZero(current_balance), RMul(shares_sold, price)),
        LAMBDA balance_after_sale :
    Let(RMin(RMax(Zero, RSub(balance_after_sale, withdrawal_amount)),
             borrowed_amount),
        LAMBDA actual_debt_repayment :
    Let(RSub(balance_after_sale, actual_debt_repayment),
        LAMBDA balance_after_repayment :
    Let(RMin(balance_after_repayment, withdrawal_amount),
        LAMBDA actual_withdrawal :
        [new_shares |-> RSub(total_shares, shares_sold),
         new_balance |-> IF IsNone(current_balance) THEN None
                         ELSE RSub(balance_after_repayment, actual_withdrawal),
         new_borrowed_amount |-> RSub(borrowed_amount, actual_debt_repayment),
         new_cost_basis |->
             IF RGt(total_shares, Zero)
             THEN RSub(total_cost_basis,
                       RMul(total_cost_basis,
                            RDiv(shares_sold, total_shares)))
             ELSE total_cost_basis,
         shares_sold |-> shares_sold,
         debt_repaid |-> actual_debt_repayment,
         amount_withdrawn |-> actual_withdrawal])))))

execute_monthly_withdrawal(withdrawal_amount, total_shares, price, borrowed_amount, current_balance, total_cost_basis) ==
    Let(RMin(calculate_shares_to_sell_for_withdrawal(
                 withdrawal_amount, borrowed_amount, current_balance,
                 price).shares_to_sell,
             total_shares), LAMBDA shares_sold :
    Let(RAdd(CashOrZero(current_balance), RMul(shares_sold, price)),
        LAMBDA balance_after_sale :
    Let(RMin(balance_after_sale, borrowed_amount),
        LAMBDA actual_debt_repayment :
    Let(RSub(balance_after_sale, actual_debt_repayment),
        LAMBDA balance_after_repayment :
    Let(RMin(balance_after_repayment, withdrawal_amount),
        LAMBDA actual_withdrawal :
        [new_shares |-> RSub(total_shares, shares_sold),
         new_balance |-> IF IsNone(current_balance) THEN None
                         ELSE RSub(balance_after_repayment, actual_withdrawal),
         new_borrowed_amount |-> RSub(borrowed_amount, actual_debt_repayment),
         new_cost_basis |->
             IF RGt(total_shares, Zero)
             THEN RSub(total_cost_basis,
                       RMul(total_cost_basis,
                            RDiv(shares_sold, total_shares)))
             ELSE total_cost_basis,
         shares_sold |-> shares_sold,
         debt_repaid |-> actual_debt_repayment,
         amount_withdrawn |-> actual_withdrawal])))))

(***************************************************************************)
(* Frequency selector.  A date is [month, dow]: month is the calendar      *)
(* month (strftime('%Y-%m')) as an index, dow says whether the date's      *)
(* weekday is the weekday of start_date.  NoMonth is the memo's None.      *)
(***************************************************************************)
NoMonth == -1

\* Faulty variant: the MONTHLY cadence does not note the month it invested in.
should_invest_forgetting_the_month(date, frequency, last_investment_month) ==
    IF frequency = "DAILY"
    THEN [should_invest |-> TRUE, last_month |-> last_investment_month]
    ELSE IF frequency = "WEEKLY"
    THEN [should_invest |-> (date.dow = "start_dow"),
          last_month |-> last_investment_month]
    ELSE IF frequency = "MONTHLY"
    THEN IF date.month # last_investment_month
         THEN [should_invest |-> TRUE, last_month |-> last_investment_month]
         ELSE [should_invest |-> FALSE, last_month |-> last_investment_month]
    ELSE [should_invest |-> TRUE, last_month |-> last_investment_month]

should_invest_today(date, frequency, last_investment_month) ==
    IF frequency = "DAILY"
    THEN [should_invest |-> TRUE, last_month |-> last_investment_month]
    ELSE IF frequency = "WEEKLY"
    THEN [should_invest |-> (date.dow = "start_dow"),
          last_month |-> last_investment_month]
    ELSE IF frequency = "MONTHLY"
    THEN IF date.month # last_investment_month
         THEN [should_invest |-> TRUE, last_month |-> date.month]
         ELSE [should_invest |-> FALSE, last_month |-> last_investment_month]
    ELSE [should_invest |-> TRUE, last_month |-> last_investment_month]

(***************************************************************************)
(* Inputs of a run.  MaxDays bounds the length of the price series; the    *)
(* sets below are the values a day's price, dividend and rate and the      *)
(* configuration are drawn from.                                           *)
(***************************************************************************)
MaxDays == 3

Prices == {R(2), R(3), R(5)}
Dividends == {Zero, One}
\* A Fed Funds rate that, with the markup, charges 5 % a month
FedRates == {<<119, 200>>}

Frequencies == {"DAILY", "WEEKLY", "MONTHLY"}

Configs ==
    { c \in [amount : {Zero, R(12)},
             initial_amount : {Zero, R(60)},
             reinvest : BOOLEAN,
             account_balance : {None, R(30)},
             margin_ratio : {One, R(2)},
             maintenance_margin : {<<1, 4>>},
             withdrawal_threshold : {None, R(40)},
             monthly_withdrawal_amount : {None, R(10)},
             frequency : Frequencies] :
        \* something is contributed; the cadence is read only when there is
        \* a recurring amount
        /\ (c.amount = Zero =>
                c.initial_amount # Zero /\ c.frequency = "DAILY")
        \* a withdrawal amount goes with a threshold
        /\ (IsNone(c.withdrawal_threshold) <=>
                IsNone(c.monthly_withdrawal_amount))
        \* with unbounded cash the purchase handler never reads margin_ratio:
        \* margin is enabled, but for one plain daily plan without margin
        /\ (IsNone(c.account_balance) =>
                \/ c.margin_ratio = R(2)
                \/ /\ c.margin_ratio = One
                   /\ c.amount # Zero /\ c.initial_amount = Zero
                   /\ ~c.reinvest /\ IsNone(c.withdrawal_threshold)
                   /\ c.frequency = "DAILY")
        \* the weekly and monthly cadences are run with finite cash and
        \* dividends paid out
        /\ (c.frequency # "DAILY" =>
                ~c.reinvest /\ ~IsNone(c.account_balance)) }

\* The weekday is read by the WEEKLY cadence alone
DowChoices(frequency) ==
    IF frequency = "WEEKLY" THEN {"start_dow", "other_dow"} ELSE {"start_dow"}

NoDate == 0

VARIABLES
    cfg,                        \* the configuration of the run
    day, date, price, day_dividend,   \* the row of hist being processed
    yesterday,                  \* month and closing shares of the previous row
    pc,                         \* the step of the daily pipeline
    invocations,                \* handler calls made by the driver today
    total_invested, total_cost_basis, available_principal, total_shares,
    cumulative_dividends, current_balance, borrowed_amount,
    total_interest_paid, margin_calls_triggered, margin_call_details,
    last_interest_month,
    withdrawal_mode_active, withdrawal_mode_start_date, total_withdrawn,
    withdrawal_details, last_withdrawal_month, last_investment_month,
    insolvency_detected, insolvency_date, first_day,
    min_equity, peak_equity,    \* the least and the greatest equity recorded
    rows,                       \* the per-day result arrays, one record a day
    result,                     \* what calculate_dca_core returns
    portfolio_values,           \* the argument of a call of
                                \* calculate_max_drawdown on its own
    max_drawdown,               \* what that call returned
    handler_call                \* a handler called on its own: its
                                \* arguments and what it returned

inputVars == <<day, date, price, day_dividend, yesterday>>
holdingVars == <<total_shares, current_balance, borrowed_amount,
                 total_cost_basis>>
marginVars == <<margin_calls_triggered, margin_call_details>>
withdrawVars == <<withdrawal_mode_active, withdrawal_mode_start_date,
                  total_withdrawn, withdrawal_details, last_withdrawal_month>>
investVars == <<total_invested, available_principal, last_investment_month,
                first_day>>
interestVars == <<total_interest_paid, last_interest_month>>
insolvencyVars == <<insolvency_detected, insolvency_date>>
equityVars == <<min_equity, peak_equity>>

callVars == <<portfolio_values, max_drawdown, handler_call>>

vars == <<cfg, inputVars, pc, invocations, holdingVars, marginVars,
          withdrawVars, investVars, interestVars, insolvencyVars,
          cumulative_dividends, rows, equityVars, result, callVars>>

NoCalls == [margin_call |-> 0, withdrawal |-> 0, dividend |-> 0,
            interest |-> 0, purchase |-> 0]

Called(handler) ==
    [invocations EXCEPT ![handler] = invocations[handler] + 1]

\* The run has not come to its return statement
NoResult == [status |-> "running"]

\* Faulty variant: the run opens with a debt of 1.
InitStateInDebt ==
    /\ day = 1
    /\ yesterday = [month |-> NoMonth, shares |-> Zero]
    /\ invocations = NoCalls
    /\ total_invested = Zero
    /\ total_cost_basis = Zero
    /\ available_principal = CashOrZero(cfg.account_balance)
    /\ total_shares = Zero
    /\ cumulative_dividends = Zero
    /\ current_balance = cfg.account_balance
    /\ borrowed_amount = One
    /\ total_interest_paid = Zero
    /\ margin_calls_triggered = 0
    /\ margin_call_details = <<>>
    /\ last_interest_month = NoMonth
    /\ withdrawal_mode_active = FALSE
    /\ withdrawal_mode_start_date = NoDate
    /\ total_withdrawn = Zero
    /\ withdrawal_details = <<>>
    /\ last_withdrawal_month = NoMonth
    /\ last_investment_month = NoMonth
    /\ insolvency_detected = FALSE
    /\ insolvency_date = NoDate
    /\ first_day = TRUE
    /\ min_equity = Infinity
    /\ peak_equity = Zero
    /\ rows = <<>>
    /\ result = NoResult

\* The state calculate_dca_core sets up before its loop
InitState ==
    /\ day = 1
    /\ yesterday = [month |-> NoMonth, shares |-> Zero]
    /\ invocations = NoCalls
    /\ total_invested = Zero
    /\ total_cost_basis = Zero
    /\ available_principal = CashOrZero(cfg.account_balance)
    /\ total_shares = Zero
    /\ cumulative_dividends = Zero
    /\ current_balance = cfg.account_balance
    /\ borrowed_amount = Zero
    /\ total_interest_paid = Zero
    /\ margin_calls_triggered = 0
    /\ margin_call_details = <<>>
    /\ last_interest_month = NoMonth
    /\ withdrawal_mode_active = FALSE
    /\ withdrawal_mode_start_date = NoDate
    /\ total_withdrawn = Zero
    /\ withdrawal_details = <<>>
    /\ last_withdrawal_month = NoMonth
    /\ last_investment_month = NoMonth
    /\ insolvency_detected = FALSE
    /\ insolvency_date = NoDate
    /\ first_day = TRUE
    /\ min_equity = Infinity
    /\ peak_equity = Zero
    /\ rows = <<>>
    /\ result = NoResult

NotCalled == [status |-> "not called"]

\* A call of calculate_dca_core with one of the configurations, on a hist
\* whose closes are among the given ones
InitOn(configs, closes) ==
    /\ cfg \in configs
    /\ date \in [month : {0}, dow : DowChoices(cfg.frequency)]
    /\ price \in closes
    /\ day_dividend \in Dividends
    /\ pc = "margin"
    /\ InitState
    /\ portfolio_values = <<>>
    /\ max_drawdown = NotCalled
    /\ handler_call = NotCalled

Init == InitOn(Configs, Prices)

\* The names of the per-day result arrays; a row of the model holds the
\* element each array is given on one day, so an array is as long as the
\* number of rows that have its name.
ResultArrays == {"date", "invested", "portfolio", "dividends", "balance", "borrowed", "interest", "net_portfolio", "leverage", "average_cost", "withdrawal_mode", "withdrawals"}

\* The equity of the day being recorded
CurrentEquity ==
    RSub(RAdd(RMul(total_shares, price), CashOrZero(current_balance)),
         borrowed_amount)

\* The trackers of the least and the greatest equity, updated with every
\* snapshot; min_equity starts at float('inf'), below which every equity is
TrackEquity ==
    /\ min_equity' = IF min_equity = Infinity \/ RLt(CurrentEquity, min_equity)
                     THEN CurrentEquity ELSE min_equity
    /\ peak_equity' = IF RGt(CurrentEquity, peak_equity)
                      THEN CurrentEquity ELSE peak_equity

\* The snapshot the driver appends to the result arrays
Row ==
    Let(RMul(total_shares, price), LAMBDA current_value :
    Let(RSub(RAdd(current_value, CashOrZero(current_balance)),
             borrowed_amount), LAMBDA current_equity :
        [date |-> day,
         month |-> date.month,
         invested |-> total_invested,
         portfolio |-> current_value,
         dividends |-> cumulative_dividends,
         balance |-> current_balance,
         borrowed |-> borrowed_amount,
         interest |-> total_interest_paid,
         net_portfolio |-> RSub(current_value, borrowed_amount),
         leverage |-> IF RGt(current_equity, Zero)
                      THEN RDiv(current_value, current_equity) ELSE One,
         average_cost |-> IF RGt(total_shares, Zero)
                          THEN RDiv(total_cost_basis, total_shares) ELSE Zero,
         withdrawal_mode |-> withdrawal_mode_active,
         withdrawals |-> total_withdrawn]))

\* Faulty variant: the insolvency branch leaves the withdrawal arrays out.
insolvency_row_without_withdrawals ==
    Let(RMul(total_shares, price), LAMBDA current_value :
    Let(RSub(RAdd(current_value, CashOrZero(current_balance)),
             borrowed_amount), LAMBDA current_equity :
        [date |-> day,
         month |-> date.month,
         invested |-> total_invested,
         portfolio |-> current_value,
         dividends |-> cumulative_dividends,
         balance |-> current_balance,
         borrowed |-> borrowed_amount,
         interest |-> total_interest_paid,
         net_portfolio |-> RSub(current_value, borrowed_amount),
         leverage |-> IF RGt(current_equity, Zero)
                      THEN RDiv(current_value, current_equity) ELSE One,
         average_cost |-> IF RGt(total_shares, Zero)
                          THEN RDiv(total_cost_basis, total_shares) ELSE Zero]))


\* The elements the insolvency branch appends before it leaves the loop
InsolvencyRow ==
    Let(RMul(total_shares, price), LAMBDA current_value :
    Let(RSub(RAdd(current_value, CashOrZero(current_balance)),
             borrowed_amount), LAMBDA current_equity :
        [date |-> day,
         month |-> date.month,
         invested |-> total_invested,
         portfolio |-> current_value,
         dividends |-> cumulative_dividends,
         balance |-> current_balance,
         borrowed |-> borrowed_amount,
         interest |-> total_interest_paid,
         net_portfolio |-> RSub(current_value, borrowed_amount),
         leverage |-> IF RGt(current_equity, Zero)
                      THEN RDiv(current_value, current_equity) ELSE One,
         average_cost |-> IF RGt(total_shares, Zero)
                          THEN RDiv(total_cost_basis, total_shares) ELSE Zero,
         withdrawal_mode |-> withdrawal_mode_active,
         withdrawals |-> total_withdrawn]))


(***************************************************************************)
(* STEP 1: margin requirements                                             *)
(***************************************************************************)
MarginCallStep ==
    /\ pc = "margin"
    /\ pc' = "insolvency"
    /\ IF /\ RGt(cfg.margin_ratio, One)
          /\ RGt(borrowed_amount, Zero)
          /\ RGt(total_shares, Zero)
       THEN \E m \in {execute_margin_call(total_shares, price,
                                            borrowed_amount, current_balance,
                                            cfg.maintenance_margin)} :
                /\ invocations' = Called("margin_call")
                /\ total_shares' = m.new_shares
                /\ current_balance' = m.new_balance
                /\ borrowed_amount' = m.new_borrowed_amount
                /\ IF m.margin_call_triggered
                   THEN /\ margin_calls_triggered' = margin_calls_triggered + 1
                        /\ margin_call_details' = Append(margin_call_details,
                             [date |-> day,
                              equity_ratio_after |->
                                  calculate_equity_ratio(
                                      RMul(m.new_shares, price), m.new_balance,
                                      m.new_borrowed_amount),
                              shares_before |-> total_shares,
                              shares_after |-> m.new_shares,
                              debt_after |-> m.new_borrowed_amount,
                              equity_before |->
                                  RSub(RAdd(RMul(total_shares, price),
                                            CashOrZero(current_balance)),
                                       borrowed_amount)])
                   ELSE UNCHANGED marginVars
       ELSE UNCHANGED <<invocations, total_shares, current_balance,
                        borrowed_amount, marginVars>>
    /\ UNCHANGED <<cfg, result, callVars, inputVars, total_cost_basis, withdrawVars, investVars,
                   interestVars, insolvencyVars, cumulative_dividends, rows, equityVars>>

(***************************************************************************)
(* STEP 2: insolvency probe                                                *)
(***************************************************************************)
\* Faulty variant: the probe records the day but the loop is not left.
InsolvencyStepWithoutBreak ==
    /\ pc = "insolvency"
    /\ pc' = "threshold"
    /\ IF /\ ~first_day
          /\ check_insolvency(RMul(total_shares, price), current_balance,
                              borrowed_amount)
       THEN /\ insolvency_detected' = TRUE
            /\ insolvency_date' = day
            /\ rows' = Append(rows, InsolvencyRow)
            /\ TrackEquity
       ELSE UNCHANGED <<insolvencyVars, rows, equityVars>>
    /\ UNCHANGED <<cfg, result, callVars, inputVars, invocations, holdingVars, marginVars,
                   withdrawVars, investVars, interestVars,
                   cumulative_dividends>>

InsolvencyStep ==
    /\ pc = "insolvency"
    /\ IF /\ ~first_day
          /\ check_insolvency(RMul(total_shares, price), current_balance,
                              borrowed_amount)
       THEN /\ insolvency_detected' = TRUE
            /\ insolvency_date' = day
            /\ rows' = Append(rows, InsolvencyRow)
            /\ TrackEquity
            /\ pc' = "done"
       ELSE /\ pc' = "threshold"
            /\ UNCHANGED <<insolvencyVars, rows, equityVars>>
    /\ UNCHANGED <<cfg, result, callVars, inputVars, invocations, holdingVars, marginVars,
                   withdrawVars, investVars, interestVars,
                   cumulative_dividends>>

(***************************************************************************)
(* STEP 3: withdrawal threshold                                            *)
(***************************************************************************)
\* Faulty variant: the cash balance is left out of the net value.
net_value_without_cash(shares, p, balance, debt) ==
    RSub(RMul(shares, p), debt)

current_net_value(shares, p, balance, debt) ==
    RSub(RAdd(RMul(shares, p), CashOrZero(balance)), debt)

\* Faulty variant: the threshold is looked at again once the mode is active.
threshold_check_every_day(mode_active, threshold) == ~IsNone(threshold)

\* if not withdrawal_mode_active and withdrawal_threshold is not None
threshold_check_pending(mode_active, threshold) ==
    ~mode_active /\ ~IsNone(threshold)

\* Faulty variant: the payoff call is made whether or not there is debt.
payoff_always(debt) == TRUE

\* if borrowed_amount > 0
payoff_needed(debt) == RGt(debt, Zero)

ThresholdStep ==
    /\ pc = "threshold"
    /\ pc' = "withdrawal"
    /\ IF /\ threshold_check_pending(withdrawal_mode_active,
                                      cfg.withdrawal_threshold)
          /\ RGe(current_net_value(total_shares, price, current_balance,
                                   borrowed_amount),
                 cfg.withdrawal_threshold)
       THEN /\ IF payoff_needed(borrowed_amount)
               THEN \E w \in {execute_monthly_withdrawal(
                                    Zero, total_shares, price, borrowed_amount,
                                    current_balance, total_cost_basis)} :
                        /\ invocations' = Called("withdrawal")
                        /\ total_shares' = w.new_shares
                        /\ current_balance' = w.new_balance
                        /\ borrowed_amount' = w.new_borrowed_amount
                        /\ total_cost_basis' = w.new_cost_basis
                        /\ withdrawal_details' =
                             IF RGt(w.debt_repaid, Zero)
                             THEN Append(withdrawal_details,
                                    [date |-> day,
                                     month |-> date.month,
                                     event_type |-> "threshold_debt_payoff",
                                     shares_sold |-> w.shares_sold,
                                     debt_repaid |-> w.debt_repaid,
                                     amount_withdrawn |-> Zero])
                             ELSE withdrawal_details
               ELSE UNCHANGED <<invocations, holdingVars, withdrawal_details>>
            /\ withdrawal_mode_active' = TRUE
            /\ withdrawal_mode_start_date' = day
       ELSE UNCHANGED <<invocations, holdingVars, withdrawal_details,
                        withdrawal_mode_active, withdrawal_mode_start_date>>
    /\ UNCHANGED <<cfg, result, callVars, inputVars, marginVars, total_withdrawn,
                   last_withdrawal_month, investVars, interestVars,
                   insolvencyVars, cumulative_dividends, rows, equityVars>>

(***************************************************************************)
(* STEP 4: monthly withdrawal                                              *)
(***************************************************************************)
\* Faulty variant: a withdrawal is made on every day of withdrawal mode.
withdrawal_due_every_day(current_month, last_month) == TRUE

\* if current_month != last_withdrawal_month
withdrawal_due(current_month, last_month) == current_month # last_month

WithdrawalStep ==
    /\ pc = "withdrawal"
    /\ pc' = "dividend"
    /\ IF /\ withdrawal_mode_active
          /\ ~IsNone(cfg.monthly_withdrawal_amount)
          /\ RGt(cfg.monthly_withdrawal_amount, Zero)
          /\ withdrawal_due(date.month, last_withdrawal_month)
       THEN \E w \in {execute_monthly_withdrawal(
                            cfg.monthly_withdrawal_amount, total_shares, price,
                            borrowed_amount, current_balance,
                            total_cost_basis)} :
                /\ invocations' = Called("withdrawal")
                /\ total_shares' = w.new_shares
                /\ current_balance' = w.new_balance
                /\ borrowed_amount' = w.new_borrowed_amount
                /\ total_cost_basis' = w.new_cost_basis
                /\ total_withdrawn' = RAdd(total_withdrawn, w.amount_withdrawn)
                /\ withdrawal_details' = Append(withdrawal_details,
                     [date |-> day,
                      month |-> date.month,
                      event_type |-> "withdrawal",
                      shares_sold |-> w.shares_sold,
                      debt_repaid |-> w.debt_repaid,
                      amount_withdrawn |-> w.amount_withdrawn])
                /\ last_withdrawal_month' = date.month
       ELSE UNCHANGED <<invocations, holdingVars, total_withdrawn,
                        withdrawal_details, last_withdrawal_month>>
    /\ UNCHANGED <<cfg, result, callVars, inputVars, marginVars, withdrawal_mode_active,
                   withdrawal_mode_start_date, investVars, interestVars,
                   insolvencyVars, cumulative_dividends, rows, equityVars>>

(***************************************************************************)
(* STEP 5: dividends                                                       *)
(***************************************************************************)
\* Faulty variant: the configured flag is used as it is.
configured_reinvest(reinvest, mode_active) == reinvest

effective_reinvest(reinvest, mode_active) == reinvest /\ ~mode_active

DividendStep ==
    /\ pc = "dividend"
    /\ pc' = "interest"
    /\ IF day_dividend # Zero
       THEN \E d \in {process_dividend(
                            total_shares, day_dividend, price,
                            effective_reinvest(cfg.reinvest,
                                               withdrawal_mode_active),
                            current_balance, total_cost_basis)} :
                /\ invocations' = Called("dividend")
                /\ total_shares' = RAdd(total_shares, d.shares_added)
                /\ total_cost_basis' = d.new_cost_basis
                /\ current_balance' = d.new_balance
                /\ cumulative_dividends' =
                       RAdd(cumulative_dividends, d.dividend_income)
                /\ withdrawal_details' =
                     IF withdrawal_mode_active /\ RGt(d.dividend_income, Zero)
                     THEN Append(withdrawal_details,
                            [date |-> day,
                             event_type |-> "dividend",
                             shares_sold |-> Zero,
                             debt_repaid |-> Zero,
                             amount_withdrawn |-> Zero])
                     ELSE withdrawal_details
       ELSE UNCHANGED <<invocations, total_shares, total_cost_basis,
                        current_balance, cumulative_dividends,
                        withdrawal_details>>
    /\ UNCHANGED <<cfg, result, callVars, inputVars, borrowed_amount, marginVars,
                   withdrawal_mode_active, withdrawal_mode_start_date,
                   total_withdrawn, last_withdrawal_month, investVars,
                   interestVars, insolvencyVars, rows, equityVars>>

(***************************************************************************)
(* STEP 6: interest.  The memo is initialised on the first iteration (with *)
(* a charge if debt exists already); afterwards interest is charged when   *)
(* the month differs from the memo and there is debt.                      *)
(***************************************************************************)
\* One "if ...: charge" block of the step: with charged FALSE the block is
\* skipped and balance, debt and paid pass through unchanged.
InterestBlock(charged, fed_rate, balance, debt, paid) ==
    IF charged
    THEN Let(process_interest_charge(debt, fed_rate, balance), LAMBDA i :
             [balance |-> i.new_balance,
              debt |-> i.new_borrowed_amount,
              paid |-> RAdd(paid, i.interest_charge),
              charged |-> TRUE])
    ELSE [balance |-> balance, debt |-> debt, paid |-> paid, charged |-> FALSE]

\* Faulty variant: after the first day, interest is charged on every day
\* that has debt, whatever the month.
InterestStepChargingEveryDay ==
    /\ pc = "interest"
    /\ pc' = "purchase"
    /\ \E fed_rate \in FedRates,
          memo \in {IF last_interest_month = NoMonth
                    THEN date.month ELSE last_interest_month} :
        \E b1 \in {InterestBlock(last_interest_month = NoMonth
                                     /\ RGt(borrowed_amount, Zero),
                                 fed_rate, current_balance, borrowed_amount,
                                 total_interest_paid)} :
        \E b2 \in {InterestBlock(RGt(b1.debt, Zero),
                                 fed_rate, b1.balance, b1.debt, b1.paid)} :
            /\ current_balance' = b2.balance
            /\ borrowed_amount' = b2.debt
            /\ total_interest_paid' = b2.paid
            /\ last_interest_month' = IF b2.charged THEN date.month ELSE memo
            /\ invocations' =
                   [invocations EXCEPT !.interest =
                        @ + (IF b1.charged THEN 1 ELSE 0)
                          + (IF b2.charged THEN 1 ELSE 0)]
    /\ UNCHANGED <<cfg, result, callVars, inputVars, total_shares, total_cost_basis, marginVars,
                   withdrawVars, investVars, insolvencyVars,
                   cumulative_dividends, rows, equityVars>>

InterestStep ==
    /\ pc = "interest"
    /\ pc' = "purchase"
    /\ \E fed_rate \in FedRates,
          memo \in {IF last_interest_month = NoMonth
                    THEN date.month ELSE last_interest_month} :
        \E b1 \in {InterestBlock(last_interest_month = NoMonth
                                     /\ RGt(borrowed_amount, Zero),
                                 fed_rate, current_balance, borrowed_amount,
                                 total_interest_paid)} :
        \E b2 \in {InterestBlock(date.month # memo /\ RGt(b1.debt, Zero),
                                 fed_rate, b1.balance, b1.debt, b1.paid)} :
            /\ current_balance' = b2.balance
            /\ borrowed_amount' = b2.debt
            /\ total_interest_paid' = b2.paid
            /\ last_interest_month' = IF b2.charged THEN date.month ELSE memo
            /\ invocations' =
                   [invocations EXCEPT !.interest =
                        @ + (IF b1.charged THEN 1 ELSE 0)
                          + (IF b2.charged THEN 1 ELSE 0)]
    /\ UNCHANGED <<cfg, result, callVars, inputVars, total_shares, total_cost_basis, marginVars,
                   withdrawVars, investVars, insolvencyVars,
                   cumulative_dividends, rows, equityVars>>

(***************************************************************************)
(* STEP 7: purchase                                                        *)
(***************************************************************************)
\* Faulty variant: purchases go on in withdrawal mode.
purchase_always(mode_active) == TRUE

\* if not withdrawal_mode_active
purchase_enabled(mode_active) == ~mode_active

PurchaseStep ==
    /\ pc = "purchase"
    /\ pc' = "record"
    /\ first_day' = FALSE
    /\ IF purchase_enabled(withdrawal_mode_active)
       THEN \E s \in {should_invest_today(date, cfg.frequency,
                                            last_investment_month)} :
            \E daily_investment \in
                    {RAdd(IF s.should_invest \/ first_day
                          THEN cfg.amount ELSE Zero,
                          IF first_day THEN cfg.initial_amount ELSE Zero)} :
            \E p \in {execute_purchase(daily_investment, price,
                                       current_balance, borrowed_amount,
                                       cfg.margin_ratio, total_shares,
                                       available_principal)} :
            \E bought \in {RGt(p.actual_investment, Zero)} :
                /\ last_investment_month' = s.last_month
                /\ invocations' = Called("purchase")
                /\ current_balance' = p.new_balance
                /\ borrowed_amount' = p.new_borrowed_amount
                /\ total_shares' = IF bought
                                   THEN RAdd(total_shares, p.shares_bought)
                                   ELSE total_shares
                /\ total_cost_basis' =
                       IF bought
                       THEN RAdd(total_cost_basis, p.actual_investment)
                       ELSE total_cost_basis
                /\ total_invested' =
                       IF ~bought THEN total_invested
                       ELSE IF IsNone(cfg.account_balance)
                       THEN RAdd(total_invested, p.cash_used)
                       ELSE RAdd(total_invested, p.principal_used)
                /\ available_principal' =
                       IF bought /\ ~IsNone(cfg.account_balance)
                       THEN RMax(Zero, RSub(available_principal,
                                            p.principal_used))
                       ELSE available_principal
       ELSE UNCHANGED <<invocations, holdingVars, total_invested,
                        available_principal, last_investment_month>>
    /\ UNCHANGED <<cfg, result, callVars, inputVars, marginVars, withdrawVars, interestVars,
                   insolvencyVars, cumulative_dividends, rows, equityVars>>

(***************************************************************************)
(* End of the loop body: the day's snapshot is appended; the loop then     *)
(* takes the next row of hist, or hist is exhausted.                       *)
(***************************************************************************)
NextDayOn(closes) ==
    /\ pc = "record"
    /\ day < MaxDays
    /\ rows' = Append(rows, Row)
    /\ TrackEquity
    /\ day' = day + 1
    /\ date' \in [month : {date.month, date.month + 1},
                  dow : DowChoices(cfg.frequency)]
    /\ price' \in closes
    /\ day_dividend' \in Dividends
    /\ yesterday' = [month |-> date.month, shares |-> total_shares]
    /\ invocations' = NoCalls
    /\ pc' = "margin"
    /\ UNCHANGED <<cfg, result, callVars, holdingVars, marginVars, withdrawVars, investVars,
                   interestVars, insolvencyVars, cumulative_dividends>>

NextDay == NextDayOn(Prices)

Finish ==
    /\ pc = "record"
    /\ rows' = Append(rows, Row)
    /\ TrackEquity
    /\ pc' = "done"
    /\ UNCHANGED <<cfg, result, callVars, inputVars, invocations, holdingVars, marginVars,
                   withdrawVars, investVars, interestVars, insolvencyVars,
                   cumulative_dividends>>

(***************************************************************************)
(* After the loop: the summary and the analytics are computed from the     *)
(* state the loop has left and from the last close of hist, and the result *)
(* is returned.  After an insolvency break hist may have rows the loop     *)
(* never reached, so its last close is any price.                          *)
(***************************************************************************)
current_leverage(margin_ratio, current_portfolio_value, balance, debt) ==
    IF RGt(margin_ratio, One) /\ RGt(current_portfolio_value, Zero)
    THEN Let(RSub(RAdd(current_portfolio_value, CashOrZero(balance)), debt),
             LAMBDA current_equity :
             IF RGt(current_equity, Zero)
             THEN RDiv(current_portfolio_value, current_equity)
             ELSE Zero)
    ELSE One

roi(current_portfolio_value, debt, invested) ==
    IF RGt(invested, Zero)
    THEN Round2(RMul(RDiv(RSub(RSub(current_portfolio_value, debt), invested),
                          invested), R(100)))
    ELSE None

Result(current_price) ==
    Let(RMul(total_shares, current_price), LAMBDA current_portfolio_value :
    Let([i \in 1..Len(rows) |-> rows[i].net_portfolio],
        LAMBDA analytics_values :
    Let(analytics_values[Len(analytics_values)], LAMBDA final_equity :
    Let(calculate_cagr(total_invested, final_equity, Len(rows)),
        LAMBDA cagr :
    Let(calculate_max_drawdown(analytics_values), LAMBDA max_dd :
             [status |-> "returned",
              dates |-> [i \in 1..Len(rows) |-> rows[i].date],
              net_portfolio |->
                  [i \in 1..Len(rows) |-> Round2(rows[i].net_portfolio)],
              leverage |->
                  [i \in 1..Len(rows) |-> Round2(rows[i].leverage)],
              summary |->
                  [total_invested |-> Round2(total_invested),
                   current_value |-> Round2(current_portfolio_value),
                   roi |-> roi(current_portfolio_value, borrowed_amount,
                               total_invested),
                   total_borrowed |-> Round2(borrowed_amount),
                   current_leverage |->
                       Round2(current_leverage(
                                  cfg.margin_ratio, current_portfolio_value,
                                  current_balance, borrowed_amount)),
                   net_portfolio_value |->
                       Round2(RSub(current_portfolio_value,
                                   borrowed_amount)),
                   insolvency_detected |-> insolvency_detected,
                   min_equity_value |->
                       IF min_equity # Infinity THEN Round2(min_equity)
                       ELSE None,
                   actual_max_drawdown |->
                       IF RGt(peak_equity, Zero)
                       THEN Round4(RDiv(RSub(min_equity, peak_equity),
                                        peak_equity))
                       ELSE Zero],
              analytics |->
                  [total_return_pct |->
                       Round2(calculate_total_return_percent(
                                  total_invested, final_equity)),
                   cagr |-> cagr,
                   max_drawdown |-> Round2(max_dd.max_drawdown),
                   max_drawdown_peak_date |-> rows[max_dd.peak_idx + 1].date,
                   max_drawdown_trough_date |->
                       rows[max_dd.trough_idx + 1].date]])))))

ReturnOn(closes) ==
    /\ pc = "done"
    /\ pc' = "returned"
    /\ \E current_price \in (IF insolvency_detected THEN closes ELSE {price}) :
           result' = Result(current_price)
    /\ UNCHANGED <<cfg, inputVars, invocations, holdingVars, marginVars,
                   withdrawVars, investVars, interestVars, insolvencyVars,
                   cumulative_dividends, rows, equityVars, callVars>>

Return == ReturnOn(Prices)

Next ==
    \/ MarginCallStep
    \/ InsolvencyStep
    \/ ThresholdStep
    \/ WithdrawalStep
    \/ DividendStep
    \/ InterestStep
    \/ PurchaseStep
    \/ NextDay
    \/ Finish
    \/ Return

Spec == Init /\ [][Next]_vars

(***************************************************************************)
(* calculate_max_drawdown called on its own, on any short series of        *)
(* values; the variables of the simulation stay as they are set up.        *)
(***************************************************************************)
MaxSeriesLen == 4

SeriesValues == {R(-1), Zero, One, R(2), R(4)}

SeriesUpTo(n) == UNION {[1..k -> SeriesValues] : k \in 0..n}

DrawdownInit ==
    /\ cfg = CHOOSE c \in Configs : TRUE
    /\ date = [month |-> 0, dow |-> "start_dow"]
    /\ price = CHOOSE p \in Prices : TRUE
    /\ day_dividend = Zero
    /\ pc = "call"
    /\ InitState
    /\ portfolio_values \in SeriesUpTo(MaxSeriesLen)
    /\ max_drawdown = NotCalled
    /\ handler_call = NotCalled

CallMaxDrawdown ==
    /\ pc = "call"
    /\ max_drawdown = NotCalled
    /\ max_drawdown' = [status |-> "returned",
                        value |-> calculate_max_drawdown(portfolio_values)]
    /\ UNCHANGED <<cfg, inputVars, pc, invocations, holdingVars, marginVars,
                   withdrawVars, investVars, interestVars, insolvencyVars,
                   cumulative_dividends, rows, equityVars, result, portfolio_values,
                   handler_call>>

DrawdownSpec == DrawdownInit /\ [][CallMaxDrawdown]_vars

(***************************************************************************)
(* process_interest_charge called on its own, on any debt, rate and cash   *)
(* of a small set; the variables of the simulation stay as they are set    *)
(* up.                                                                     *)
(***************************************************************************)
InterestDebts == {Zero, R(100), R(240), R(1000), R(2400)}

\* With the markup: 0.5 %, 5.5 % and 60 % a year
InterestRates == {Zero, <<1, 20>>, <<119, 200>>}

InterestCash == {None, Zero, One, R(5), R(12), R(120)}

\* The simulation set up and not started, while a handler is called alone
Standing ==
    /\ cfg = CHOOSE c \in Configs : TRUE
    /\ date = [month |-> 0, dow |-> "start_dow"]
    /\ price = CHOOSE p \in Prices : TRUE
    /\ day_dividend = Zero
    /\ pc = "call"
    /\ InitState
    /\ portfolio_values = <<>>
    /\ max_drawdown = NotCalled

InterestInit ==
    /\ Standing
    /\ handler_call \in [status : {"called"},
                         borrowed_amount : InterestDebts,
                         fed_rate : InterestRates,
                         current_balance : InterestCash]

CallProcessInterestCharge ==
    /\ pc = "call"
    /\ handler_call.status = "called"
    /\ handler_call' =
           [status |-> "returned",
            borrowed_amount |-> handler_call.borrowed_amount,
            fed_rate |-> handler_call.fed_rate,
            current_balance |-> handler_call.current_balance,
            value |-> process_interest_charge(handler_call.borrowed_amount,
                                              handler_call.fed_rate,
                                              handler_call.current_balance)]
    /\ UNCHANGED <<cfg, inputVars, pc, invocations, holdingVars, marginVars,
                   withdrawVars, investVars, interestVars, insolvencyVars,
                   cumulative_dividends, rows, equityVars, result, portfolio_values,
                   max_drawdown>>

InterestSpec == InterestInit /\ [][CallProcessInterestCharge]_vars

(***************************************************************************)
(* execute_monthly_withdrawal called on its own, on any request, holding,  *)
(* close, debt and cash of a small set.                                    *)
(***************************************************************************)
WithdrawalRequests == {Zero, R(10), R(40)}

WithdrawalShares == {Zero, One, R(4), R(10)}

WithdrawalPrices == {Zero, R(2), R(5)}

WithdrawalDebts == {Zero, R(5), R(30)}

WithdrawalCash == {None, Zero, R(3), R(20), R(60)}

WithdrawalCostBases == {Zero, R(20)}

WithdrawalInit ==
    /\ Standing
    /\ handler_call \in [status : {"called"},
                         withdrawal_amount : WithdrawalRequests,
                         total_shares : WithdrawalShares,
                         price : WithdrawalPrices,
                         borrowed_amount : WithdrawalDebts,
                         current_balance : WithdrawalCash,
                         total_cost_basis : WithdrawalCostBases]

CallExecuteMonthlyWithdrawal ==
    /\ pc = "call"
    /\ handler_call.status = "called"
    /\ handler_call' =
           [handler_call EXCEPT !.status = "returned"] @@
           [value |-> execute_monthly_withdrawal(
                          handler_call.withdrawal_amount,
                          handler_call.total_shares, handler_call.price,
                          handler_call.borrowed_amount,
                          handler_call.current_balance,
                          handler_call.total_cost_basis)]
    /\ UNCHANGED <<cfg, inputVars, pc, invocations, holdingVars, marginVars,
                   withdrawVars, investVars, interestVars, insolvencyVars,
                   cumulative_dividends, rows, equityVars, result, portfolio_values,
                   max_drawdown>>

WithdrawalSpec == WithdrawalInit /\ [][CallExecuteMonthlyWithdrawal]_vars

(***************************************************************************)
(* The simulation at the edges of the declared ranges: a close of 0 on any *)
(* day, an account balance of 0, a threshold and a withdrawal amount of 0, *)
(* and nothing to contribute.                                              *)
(***************************************************************************)
EdgePrices == {Zero, R(2), R(5)}

EdgeConfigs ==
    { c \in [amount : {Zero, R(12)},
             initial_amount : {Zero, R(60)},
             reinvest : BOOLEAN,
             account_balance : {None, Zero, R(30)},
             margin_ratio : {One, R(2)},
             maintenance_margin : {<<1, 4>>},
             withdrawal_threshold : {None, Zero, R(40)},
             monthly_withdrawal_amount : {None, Zero, R(10)},
             frequency : {"DAILY"}] :
        /\ (IsNone(c.withdrawal_threshold) =>
                IsNone(c.monthly_withdrawal_amount))
        /\ (c.withdrawal_threshold = R(40) =>
                c.monthly_withdrawal_amount = R(10)) }

EdgeInit == InitOn(EdgeConfigs, EdgePrices)

EdgeNextDay == NextDayOn(EdgePrices)

EdgeReturn == ReturnOn(EdgePrices)

EdgeNext ==
    \/ MarginCallStep
    \/ InsolvencyStep
    \/ ThresholdStep
    \/ WithdrawalStep
    \/ DividendStep
    \/ InterestStep
    \/ PurchaseStep
    \/ EdgeNextDay
    \/ Finish
    \/ EdgeReturn

EdgeSpec == EdgeInit /\ [][EdgeNext]_vars

(***************************************************************************)
(* Properties.  The quantities the properties speak of are written out     *)
(* here from their definitions, not taken from the handlers above.         *)
(***************************************************************************)
LastRow == rows[Len(rows)]

\* a margin call was triggered on day d
MarginCallOn(d) ==
    \E k \in 1..Len(margin_call_details) : margin_call_details[k].date = d

\* shares*price + max(0, cash) - debt
Equity(shares_value, cash, debt) ==
    RSub(RAdd(shares_value,
              IF IsNone(cash) THEN Zero ELSE RMax(Zero, cash)), debt)

\* equity / (shares*price) >= floor, or no shares are held
RatioAtLeast(shares_value, cash, debt, floor) ==
    \/ shares_value = Zero
    \/ RGe(RDiv(Equity(shares_value, cash, debt), shares_value), floor)

Epsilon == <<1, 100>>

\* ---- C1 ----------------------------------------------------------------
C1_State ==
    /\ (pc = "threshold" /\ day > 1) =>
           RGt(Equity(RMul(total_shares, price), current_balance,
                      borrowed_amount), Zero)
    /\ insolvency_detected =>
           /\ pc \in {"done", "returned"}
           /\ insolvency_date = day
           /\ day > 1
           /\ Len(rows) >= 2
           /\ LastRow.date = insolvency_date
           /\ \A i \in 1..(Len(rows) - 1) : rows[i].date # insolvency_date
           /\ invocations.withdrawal = 0
           /\ invocations.dividend = 0
           /\ invocations.interest = 0
           /\ invocations.purchase = 0
           /\ LastRow.withdrawals = rows[Len(rows) - 1].withdrawals
           /\ LastRow.dividends = rows[Len(rows) - 1].dividends
           /\ LastRow.interest = rows[Len(rows) - 1].interest
           /\ LastRow.invested = rows[Len(rows) - 1].invested
           /\ RLe(Equity(RMul(total_shares, price), current_balance,
                         borrowed_amount), Zero)

\* C1: when the insolvency probe fires on day d (d not the first day, equity
\* shares*price + max(0,cash) - debt <= 0 after the margin-call step) the run
\* ends with exactly one row for d, its last row; no withdrawal, dividend,
\* interest charge or contribution is applied on d, and nothing changes
\* afterwards but the result being computed and returned.  A day later than
\* the first one gets past the probe only with positive equity.
C1_InsolvencyEndsRun ==
    /\ []C1_State
    /\ [][insolvency_detected =>
              /\ pc = "done" /\ pc' = "returned"
              /\ UNCHANGED <<cfg, inputVars, invocations, holdingVars,
                             marginVars, withdrawVars, investVars,
                             interestVars, insolvencyVars,
                             cumulative_dividends, rows, equityVars>>]_vars

\* C1 case: the probe has fired with debt outstanding on a day that pays a
\* dividend
C1_Witness ==
    /\ insolvency_detected
    /\ day_dividend # Zero
    /\ RGt(borrowed_amount, Zero)

\* ---- C2 ----------------------------------------------------------------
\* C2: immediately after a triggered margin call, before any other step of
\* the day, the equity ratio is at least maintenance_margin or no shares are
\* left.
C2_RatioRestoredOrNoShares ==
    (pc = "insolvency" /\ MarginCallOn(day)) =>
        RatioAtLeast(RMul(total_shares, price), current_balance,
                     borrowed_amount, cfg.maintenance_margin)

\* C2 case: a call has just been triggered on an account whose equity was
\* still positive
C2_Witness ==
    /\ pc = "insolvency"
    /\ MarginCallOn(day)
    /\ RGt(margin_call_details[Len(margin_call_details)].equity_before, Zero)

\* ---- C3 ----------------------------------------------------------------
\* C3: a triggered margin call sells only the shares needed to bring the
\* ratio back to maintenance_margin; everything is sold only when no partial
\* sale can restore the ratio.  With positive equity a partial sale can
\* (sell down to equity / maintenance_margin), so such a call leaves shares
\* at a ratio of maintenance_margin.
C3_SellsOnlyWhatIsNeeded ==
    \A k \in 1..Len(margin_call_details) :
        RGt(margin_call_details[k].equity_before, Zero) =>
            /\ RGt(margin_call_details[k].shares_after, Zero)
            /\ margin_call_details[k].equity_ratio_after =
                   cfg.maintenance_margin

\* ---- C4 ----------------------------------------------------------------
\* C4 as stated: the state recorded for a day that directly follows a
\* margin-call day has ratio >= maintenance_margin - epsilon, or no shares.
C4_RecordedRatioAfterCallDay ==
    \A i \in 2..Len(rows) :
        MarginCallOn(rows[i - 1].date) =>
            RatioAtLeast(rows[i].portfolio, rows[i].balance, rows[i].borrowed,
                         RSub(cfg.maintenance_margin, Epsilon))

\* C4 amended: on a day that directly follows a margin-call day, the state
\* right after that day's margin-call step has ratio >= maintenance_margin,
\* or no shares.
C4_RatioAfterMarginStep ==
    (pc = "insolvency" /\ day > 1 /\ MarginCallOn(day - 1)) =>
        RatioAtLeast(RMul(total_shares, price), current_balance,
                     borrowed_amount, cfg.maintenance_margin)

\* C4 case: the day after a margin call, with shares bought again on margin
C4_Witness ==
    /\ pc = "insolvency"
    /\ day > 1
    /\ MarginCallOn(day - 1)
    /\ RGt(total_shares, Zero)
    /\ RGt(borrowed_amount, Zero)

\* ---- C5 ----------------------------------------------------------------
C5_RowsMonotone ==
    \A i \in 1..Len(rows), j \in 1..Len(rows) :
        (i < j /\ rows[i].withdrawal_mode) => rows[j].withdrawal_mode

\* C5: withdrawal mode is one-way: once true it stays true on every later
\* day, whatever follows, and withdrawal_mode_start_date is set exactly
\* once, by the step that activates the mode.
C5_WithdrawalModeOneWay ==
    /\ []C5_RowsMonotone
    /\ [][/\ withdrawal_mode_active =>
                /\ withdrawal_mode_active'
                /\ withdrawal_mode_start_date' = withdrawal_mode_start_date
          /\ withdrawal_mode_start_date' # withdrawal_mode_start_date =>
                /\ ~withdrawal_mode_active
                /\ withdrawal_mode_active'
                /\ withdrawal_mode_start_date = NoDate]_vars

\* C5 case: a later day of withdrawal mode on which the net value is back
\* below the threshold
C5_Witness ==
    /\ withdrawal_mode_active
    /\ day > withdrawal_mode_start_date
    /\ pc = "withdrawal"
    /\ RLt(RSub(RAdd(RMul(total_shares, price), CashOrZero(current_balance)),
                borrowed_amount), cfg.withdrawal_threshold)

\* ---- C6 ----------------------------------------------------------------
\* C6: from the activation of withdrawal mode on, debt is 0 (in particular
\* at the end of every recorded day) and every monthly withdrawal reports
\* debt_repaid = 0.
C6_NoDebtInWithdrawalMode ==
    /\ withdrawal_mode_active => borrowed_amount = Zero
    /\ \A i \in 1..Len(rows) :
           rows[i].withdrawal_mode => rows[i].borrowed = Zero
    /\ \A k \in 1..Len(withdrawal_details) :
           withdrawal_details[k].event_type = "withdrawal" =>
               withdrawal_details[k].debt_repaid = Zero

\* C6 case: the mode was activated with debt, which the payoff repaid, and
\* a monthly withdrawal has been made on a later day
C6_Witness ==
    /\ withdrawal_mode_active
    /\ pc = "record"
    /\ \E k \in 1..Len(withdrawal_details) :
           withdrawal_details[k].event_type = "threshold_debt_payoff"
    /\ \E k \in 1..Len(withdrawal_details) :
           /\ withdrawal_details[k].event_type = "withdrawal"
           /\ withdrawal_details[k].date > withdrawal_mode_start_date

\* ---- C7 ----------------------------------------------------------------
\* C7: in withdrawal mode no contribution is executed, whatever the
\* frequency: the purchase handler is not called, and total_invested of the
\* activation day and of every later day is the value at the end of the day
\* before.
C7_NoContributionInWithdrawalMode ==
    /\ withdrawal_mode_active =>
           /\ invocations.purchase = 0
           /\ total_invested =
                  (IF Len(rows) = 0 THEN Zero ELSE LastRow.invested)
    /\ \A i \in 1..Len(rows) :
           rows[i].withdrawal_mode =>
               rows[i].invested =
                   (IF i = 1 THEN Zero ELSE rows[i - 1].invested)

\* C7 case: a day of withdrawal mode on which the monthly cadence would
\* contribute, with principal left to contribute
C7_Witness ==
    /\ withdrawal_mode_active
    /\ pc = "record"
    /\ cfg.frequency = "MONTHLY"
    /\ date.month # last_investment_month
    /\ RGt(available_principal, Zero)
    /\ RGt(current_balance, Zero)

\* ---- C8 ----------------------------------------------------------------
\* C8: in withdrawal mode a dividend is credited to cash and buys no
\* shares, even with reinvest configured; no step that ends in withdrawal
\* mode increases the share count.
C8_DividendsToCashInWithdrawalMode ==
    [][/\ withdrawal_mode_active' => RLe(total_shares', total_shares)
       /\ (withdrawal_mode_active /\ pc = "dividend"
                                  /\ day_dividend # Zero) =>
              /\ total_shares' = total_shares
              /\ cumulative_dividends' =
                     RAdd(cumulative_dividends,
                          RMul(total_shares, day_dividend))
              /\ \/ IsNone(current_balance)
                 \/ current_balance' =
                        RAdd(current_balance,
                             RMul(total_shares, day_dividend))]_vars

\* C8 case: a dividend has been processed in withdrawal mode on shares held,
\* with reinvest configured
C8_Witness ==
    /\ withdrawal_mode_active
    /\ cfg.reinvest
    /\ pc = "interest"
    /\ invocations.dividend = 1
    /\ RGt(total_shares, Zero)
    /\ ~IsNone(current_balance)

\* ---- C9 ----------------------------------------------------------------
\* C9 as stated: the mode is activated only if portfolio value minus debt,
\* cash excluded, is >= withdrawal_threshold.
C9_ActivationExcludesCash ==
    [][(~withdrawal_mode_active /\ withdrawal_mode_active') =>
           RGe(RSub(RMul(total_shares, price), borrowed_amount),
               cfg.withdrawal_threshold)]_vars

\* C9 amended: the mode is activated exactly when, at the activation check
\* of a run with a threshold, portfolio value plus cash (no cash counting
\* as 0) minus debt is >= withdrawal_threshold.
C9_ActivationCountsCash ==
    [][/\ (~withdrawal_mode_active /\ withdrawal_mode_active') =>
              /\ pc = "threshold"
              /\ ~IsNone(cfg.withdrawal_threshold)
              /\ RGe(RSub(RAdd(RMul(total_shares, price),
                               IF IsNone(current_balance) THEN Zero
                               ELSE current_balance),
                          borrowed_amount),
                     cfg.withdrawal_threshold)
       /\ (/\ pc = "threshold"
           /\ ~withdrawal_mode_active
           /\ ~IsNone(cfg.withdrawal_threshold)
           /\ RGe(RSub(RAdd(RMul(total_shares, price),
                            IF IsNone(current_balance) THEN Zero
                            ELSE current_balance),
                       borrowed_amount),
                  cfg.withdrawal_threshold)) =>
              withdrawal_mode_active']_vars

\* C9 case: the mode has just been activated although portfolio value minus
\* debt is below the threshold
C9_Witness ==
    /\ pc = "withdrawal"
    /\ withdrawal_mode_active
    /\ withdrawal_mode_start_date = day
    /\ RLt(RSub(RMul(total_shares, price), borrowed_amount),
           cfg.withdrawal_threshold)

\* ---- C10 ---------------------------------------------------------------
\* C10 as stated: on every day each handler is invoked at most once.
C10_EachHandlerAtMostOnce ==
    \A h \in DOMAIN invocations : invocations[h] <= 1

\* C10 amended: on every day the margin-call, dividend, interest and
\* purchase handlers are invoked at most once; the withdrawal handler is
\* invoked at most twice, and twice only on the day the mode activates with
\* debt to pay off (once for the payoff, once for the monthly withdrawal).
C10_AtMostOnceButPayoffDay ==
    /\ \A h \in {"margin_call", "dividend", "interest", "purchase"} :
           invocations[h] <= 1
    /\ invocations.withdrawal <= 2
    /\ invocations.withdrawal = 2 =>
           /\ withdrawal_mode_start_date = day
           /\ \E k \in 1..Len(withdrawal_details) :
                  /\ withdrawal_details[k].date = day
                  /\ withdrawal_details[k].event_type =
                         "threshold_debt_payoff"

\* C10 case: the withdrawal handler has been invoked twice today
C10_Witness == invocations.withdrawal = 2

\* ---- C11 ---------------------------------------------------------------
\* debt * (annual rate + 0.5 %) / 12
MonthCharge(debt, fed_rate) ==
    RDiv(RMul(debt, RAdd(fed_rate, <<1, 200>>)), R(12))

\* C11: interest is charged by the interest step alone, before the day's
\* purchase has been made, on the debt outstanding at that point, and is
\* settled from the cash of that point (what cash does not cover is added to
\* the debt); the purchase step charges nothing.
C11_InterestBeforeContribution ==
    [][/\ total_interest_paid' # total_interest_paid =>
              /\ pc = "interest"
              /\ invocations.purchase = 0
              /\ \E r \in FedRates :
                     /\ total_interest_paid' =
                            RAdd(total_interest_paid,
                                 MonthCharge(borrowed_amount, r))
                     /\ \/ /\ IsNone(current_balance)
                           /\ borrowed_amount' = borrowed_amount
                        \/ /\ ~IsNone(current_balance)
                           /\ RGe(current_balance,
                                  MonthCharge(borrowed_amount, r))
                           /\ current_balance' =
                                  RSub(current_balance,
                                       MonthCharge(borrowed_amount, r))
                           /\ borrowed_amount' = borrowed_amount
                        \/ /\ ~IsNone(current_balance)
                           /\ RLt(current_balance,
                                  MonthCharge(borrowed_amount, r))
                           /\ current_balance' = Zero
                           /\ borrowed_amount' =
                                  RAdd(borrowed_amount,
                                       RSub(MonthCharge(borrowed_amount, r),
                                            current_balance))
       /\ pc = "purchase" => total_interest_paid' = total_interest_paid]_vars

\* C11 case: interest has been charged today and the purchase that followed
\* borrowed (the debt exceeds yesterday's by more than a month's interest)
C11_Witness ==
    /\ pc = "record"
    /\ invocations.interest = 1
    /\ invocations.purchase = 1
    /\ Len(rows) > 0
    /\ RGt(borrowed_amount, RMul(LastRow.borrowed, <<21, 20>>))

\* ---- C12 ---------------------------------------------------------------
\* C12: interest is charged only on the first trading day of a new calendar
\* month, a day whose month differs from the month of the previous day;
\* cumulative interest paid does not grow on any other day.
C12_InterestOnlyOnFirstDayOfMonth ==
    [][total_interest_paid' # total_interest_paid =>
           (day > 1 /\ date.month # yesterday.month)]_vars

C14_CostBasisReducedWithSharesSold ==
    [][RLt(total_shares', total_shares) =>
           total_cost_basis' =
               RMul(total_cost_basis, RDiv(total_shares', total_shares))]_vars

\* ---- C15 ---------------------------------------------------------------
\* C15: in finite-cash mode the cash balance is a number and is >= 0 after
\* every step of every day (interest capitalisation, purchases, margin-call
\* liquidations and withdrawals included).
C15_CashNeverNegative ==
    ~IsNone(cfg.account_balance) =>
        /\ ~IsNone(current_balance)
        /\ RGe(current_balance, Zero)

\* C15 case: interest has just been charged with cash short of the charge,
\* so cash is 0 and the debt has grown by the unpaid part
C15_Witness ==
    /\ pc = "purchase"
    /\ invocations.interest = 1
    /\ ~IsNone(cfg.account_balance)
    /\ current_balance = Zero
    /\ Len(rows) > 0
    /\ RGt(borrowed_amount, LastRow.borrowed)

\* ---- C16 ---------------------------------------------------------------
\* C16: after every step of every day shares >= 0, debt >= 0 and cost
\* basis >= 0, for every configuration and every price and dividend path.
C16_SharesDebtCostBasisNonNegative ==
    /\ RGe(total_shares, Zero)
    /\ RGe(borrowed_amount, Zero)
    /\ RGe(total_cost_basis, Zero)

\* C16 case: a day ends on which the withdrawal handler sold shares and took
\* the debt of the day before down to exactly 0
C16_Witness ==
    /\ pc = "record"
    /\ invocations.withdrawal >= 1
    /\ Len(rows) > 0
    /\ RGt(LastRow.borrowed, Zero)
    /\ borrowed_amount = Zero
    /\ RGt(total_shares, Zero)
    /\ RLt(total_shares, yesterday.shares)

\* ---- C17 ---------------------------------------------------------------
\* C17: debt exists only when margin is enabled: with margin_ratio = 1 the
\* debt is 0 at every step of every day, no interest is ever paid and no
\* margin call is ever triggered.
C17_NoDebtWithoutMargin ==
    cfg.margin_ratio = One =>
        /\ borrowed_amount = Zero
        /\ total_interest_paid = Zero
        /\ margin_calls_triggered = 0

\* C17 case: without margin, a purchase has been cut down to the cash that
\* was left, which it used up
C17_Witness ==
    /\ pc = "record"
    /\ cfg.margin_ratio = One
    /\ ~IsNone(cfg.account_balance)
    /\ invocations.purchase = 1
    /\ current_balance = Zero
    /\ RGt(total_shares, Zero)
    /\ borrowed_amount = Zero

\* ---- C18 ---------------------------------------------------------------
\* C18: in finite-cash mode available_principal is always between 0 and the
\* initial account balance and no step ever increases it: dividends,
\* liquidation proceeds and borrowed funds never refill it.
C18_PrincipalNeverRefilled ==
    /\ [](~IsNone(cfg.account_balance) =>
             /\ RGe(available_principal, Zero)
             /\ RLe(available_principal, cfg.account_balance))
    /\ [][~IsNone(cfg.account_balance) =>
             RLe(available_principal', available_principal)]_vars

\* C18 case: the principal is used up while cash is left, cash that came
\* from dividends or from sales, and a purchase has run today
C18_Witness ==
    /\ pc = "record"
    /\ ~IsNone(cfg.account_balance)
    /\ invocations.purchase = 1
    /\ available_principal = Zero
    /\ RGt(current_balance, Zero)

\* ---- C19 ---------------------------------------------------------------
\* C19: in finite-cash mode total_invested is the principal used so far,
\* account_balance - available_principal, so it never exceeds the initial
\* account balance, and therefore never exceeds account_balance +
\* initial_amount + the sum of the contribution amounts of the days on which
\* a contribution was due (the added terms are not negative).
C19_InvestedWithinAccountBalance ==
    ~IsNone(cfg.account_balance) =>
        /\ total_invested = RSub(cfg.account_balance, available_principal)
        /\ RLe(total_invested, cfg.account_balance)

\* C19 case: the principal was used up before today, today's purchase bought
\* shares with other money (dividends, proceeds or a loan), and
\* total_invested has stayed at the account balance
C19_Witness ==
    /\ pc = "record"
    /\ ~IsNone(cfg.account_balance)
    /\ ~cfg.reinvest
    /\ invocations.purchase = 1
    /\ total_invested = cfg.account_balance
    /\ Len(rows) > 0
    /\ LastRow.invested = cfg.account_balance
    /\ RGt(total_shares, yesterday.shares)

\* ---- C20 ---------------------------------------------------------------
\* C20: with unbounded cash margin is inert, whatever the margin ratio: the
\* purchase handler never borrows, so the debt is 0 at every step of every
\* day, no margin call is ever triggered and no interest is ever charged.
C20_MarginInertWithUnboundedCash ==
    IsNone(cfg.account_balance) =>
        /\ borrowed_amount = Zero
        /\ margin_calls_triggered = 0
        /\ total_interest_paid = Zero
        /\ IsNone(current_balance)

\* C20 case: unbounded cash with margin enabled, on a later day on which
\* shares are held, the price has fallen and a purchase has been made
C20_Witness ==
    /\ pc = "record"
    /\ IsNone(cfg.account_balance)
    /\ RGt(cfg.margin_ratio, One)
    /\ invocations.purchase = 1
    /\ Len(rows) > 0
    /\ RGt(yesterday.shares, Zero)
    /\ RLt(RMul(yesterday.shares, price), LastRow.portfolio)
    /\ RGt(total_shares, yesterday.shares)

\* ---- C21 ---------------------------------------------------------------
\* The length of a result array: the number of rows that gave it an element
ArrayLength(name) ==
    Cardinality({i \in 1..Len(rows) : name \in DOMAIN rows[i]})

\* C21: all the per-day result arrays have the same length, the number of
\* simulated days: the days before today while a day is being processed,
\* and all the days begun once the run has ended, by the end of hist or by
\* the insolvency break.
C21_ArraysAlignedWithDays ==
    \A name \in ResultArrays :
        ArrayLength(name) =
            IF pc \in {"done", "returned"} THEN day ELSE day - 1

\* C21 case: a run has been cut short by insolvency after the first day
C21_Witness ==
    /\ pc = "done"
    /\ insolvency_detected
    /\ day > 1
    /\ ArrayLength("withdrawals") = day

\* ---- C22 ---------------------------------------------------------------
\* C22: in every run that returns, the last element of the leverage series
\* equals summary.current_leverage.
C22_LeverageSeriesEndsAtSummary ==
    result.status = "returned" =>
        result.leverage[Len(result.leverage)] =
            result.summary.current_leverage

RunningPeak(j) ==
    CHOOSE m \in {portfolio_values[k + 1] : k \in 0..j} :
        \A k \in 0..j : RLe(portfolio_values[k + 1], m)

\* The (peak, trough) index pairs, from 0: the peak is an index at or before
\* the trough that holds the largest value up to the trough, a value > 0
PeakTroughPairs ==
    {c \in (0..(Len(portfolio_values) - 1)) \X (0..(Len(portfolio_values) - 1)) :
        /\ c[1] <= c[2]
        /\ portfolio_values[c[1] + 1] = RunningPeak(c[2])
        /\ RGt(portfolio_values[c[1] + 1], Zero)}

DrawdownOf(c) ==
    RDiv(RSub(portfolio_values[c[2] + 1], portfolio_values[c[1] + 1]),
         portfolio_values[c[1] + 1])

\* The pairs that attain the maximum drawdown, when there is a drawdown
MaxDrawdownPairs ==
    {c \in PeakTroughPairs :
        /\ RLt(DrawdownOf(c), Zero)
        /\ \A e \in PeakTroughPairs : RLe(DrawdownOf(c), DrawdownOf(e))}

\* C24 as stated: among the pairs that attain the maximum drawdown,
\* calculate_max_drawdown returns the earliest peak and the latest trough.
C24_EarliestPeakLatestTrough ==
    (max_drawdown.status = "returned" /\ MaxDrawdownPairs # {}) =>
        /\ \A c \in MaxDrawdownPairs :
               /\ max_drawdown.value.peak_idx <= c[1]
               /\ max_drawdown.value.trough_idx >= c[2]
        /\ \E c \in MaxDrawdownPairs : max_drawdown.value.peak_idx = c[1]
        /\ \E c \in MaxDrawdownPairs : max_drawdown.value.trough_idx = c[2]

\* C24 (as the code has it): among the pairs that attain the maximum
\* drawdown, calculate_max_drawdown returns the one with the earliest trough,
\* the first time the maximum is reached, and the earliest peak, with the
\* drawdown as a percentage; without a drawdown it returns (0, 0, 0).
C24_EarliestPeakEarliestTrough ==
    max_drawdown.status = "returned" =>
        IF MaxDrawdownPairs = {}
        THEN max_drawdown.value =
                 [max_drawdown |-> Zero, peak_idx |-> 0, trough_idx |-> 0]
        ELSE /\ <<max_drawdown.value.peak_idx,
                  max_drawdown.value.trough_idx>> \in MaxDrawdownPairs
             /\ \A c \in MaxDrawdownPairs :
                    /\ max_drawdown.value.peak_idx <= c[1]
                    /\ max_drawdown.value.trough_idx <= c[2]
             /\ max_drawdown.value.max_drawdown =
                    RMul(DrawdownOf(<<max_drawdown.value.peak_idx,
                                      max_drawdown.value.trough_idx>>),
                         R(100))

\* C24 case: the function has returned on a series in which the maximum
\* drawdown is attained at two troughs and from two peaks
C24_Witness ==
    /\ max_drawdown.status = "returned"
    /\ \E c, e \in MaxDrawdownPairs : c[1] # e[1] /\ c[2] # e[2]

\* ---- C25 ---------------------------------------------------------------
\* The numbers the run holds: its accumulators, the snapshots appended to the
\* result arrays, the event records and the summary
HeldNumbers ==
    {total_invested, total_cost_basis, available_principal, total_shares,
     cumulative_dividends, borrowed_amount, total_interest_paid,
     total_withdrawn}
    \cup UNION {{rows[i].invested, rows[i].portfolio, rows[i].dividends,
                 rows[i].borrowed, rows[i].interest, rows[i].net_portfolio,
                 rows[i].leverage, rows[i].average_cost,
                 rows[i].withdrawals} : i \in 1..Len(rows)}
    \cup UNION {{margin_call_details[i].equity_ratio_after,
                 margin_call_details[i].shares_before,
                 margin_call_details[i].shares_after,
                 margin_call_details[i].debt_after,
                 margin_call_details[i].equity_before} :
                    i \in 1..Len(margin_call_details)}
    \cup UNION {{withdrawal_details[i].shares_sold,
                 withdrawal_details[i].debt_repaid,
                 withdrawal_details[i].amount_withdrawn} :
                    i \in 1..Len(withdrawal_details)}
    \cup (IF result.status = "returned"
          THEN {result.summary.total_invested, result.summary.current_value,
                result.summary.total_borrowed,
                result.summary.current_leverage,
                result.summary.net_portfolio_value}
          ELSE {})

\* The values that are a number or None: the cash, and the roi of a run that
\* invested nothing
NullableNumbers ==
    {current_balance} \cup {rows[i].balance : i \in 1..Len(rows)}
    \cup (IF result.status = "returned" THEN {result.summary.roi} ELSE {})

\* C25: with closes, balances, thresholds, withdrawal amounts and
\* contributions of 0 among the inputs, no step of the daily pipeline and no
\* part of the summary divides by zero or faults otherwise (every value held
\* is a number, the nullable ones a number or None), the run always has a
\* next step until the result is returned, and the loop is left before
\* hist is exhausted by the insolvency break alone.
C25_TotalOverDeclaredDomain ==
    /\ [](/\ HeldNumbers \subseteq Number
          /\ NullableNumbers \subseteq Number \cup {None}
          /\ pc # "returned" => ENABLED EdgeNext)
    /\ [][pc' = "done" =>
            \/ pc = "record"
            \/ pc = "insolvency" /\ insolvency_detected']_vars

\* C25 case: a run has returned whose last close is 0, with shares held
\* that are worth nothing and a withdrawal made on an earlier day
C25_Witness ==
    /\ pc = "returned"
    /\ price = Zero
    /\ RGt(total_shares, Zero)
    /\ Len(withdrawal_details) > 0
    /\ result.summary.current_value = Zero

C27_InsolvencyOnlyWithDebt ==
    insolvency_detected => RGt(borrowed_amount, Zero)

\* ---- C28 ---------------------------------------------------------------
\* A purchase step that borrowed: the debt is larger after it
PurchaseBorrows ==
    pc = "purchase" /\ RGt(borrowed_amount', borrowed_amount)

\* C28: after any purchase that borrows, the portfolio value is at most
\* margin_ratio times the equity, both taken after the purchase, and the
\* amount the purchase invested is at most the buying power
\* max(0, equity * margin_ratio - portfolio value) computed before it.
C28_BorrowingWithinBuyingPower ==
    [][PurchaseBorrows =>
          /\ RLe(RMul(total_shares', price),
                 RMul(cfg.margin_ratio,
                      RSub(RAdd(RMul(total_shares', price), current_balance'),
                           borrowed_amount')))
          /\ RLe(RSub(total_cost_basis', total_cost_basis),
                 RMax(Zero,
                      RSub(RMul(RSub(RAdd(RMul(total_shares, price),
                                          current_balance),
                                     borrowed_amount),
                                cfg.margin_ratio),
                           RMul(total_shares, price))))]_vars

\* ---- C29 ---------------------------------------------------------------
\* The contribution the driver asks the purchase handler for today
DesiredContribution ==
    RAdd(IF should_invest_today(date, cfg.frequency,
                                last_investment_month).should_invest
            \/ first_day
         THEN cfg.amount ELSE Zero,
         IF first_day THEN cfg.initial_amount ELSE Zero)

\* The cash covers x: it is unbounded or at least x
CashCovers(x) ==
    IF IsNone(current_balance) THEN TRUE ELSE RGe(current_balance, x)

\* C29: a purchase uses cash first: when the cash covers the desired
\* contribution the purchase leaves the debt unchanged, and whenever a
\* purchase increases the debt the cash after it is 0.
C29_CashBeforeMargin ==
    [][pc = "purchase" =>
          /\ CashCovers(DesiredContribution) =>
                 borrowed_amount' = borrowed_amount
          /\ RGt(borrowed_amount', borrowed_amount) =>
                 current_balance' = Zero]_vars

\* C29 case: a purchase has borrowed on a day that began with cash in the
\* account, and the cash is gone
C29_Witness ==
    /\ pc = "record"
    /\ invocations.purchase = 1
    /\ Len(rows) > 0
    /\ ~IsNone(cfg.account_balance)
    /\ RGt(LastRow.balance, Zero)
    /\ total_interest_paid = LastRow.interest
    /\ RGt(borrowed_amount, LastRow.borrowed)
    /\ RGt(total_shares, yesterday.shares)
    /\ current_balance = Zero

\* ---- C30 ---------------------------------------------------------------
\* A purchase step with finite cash on a day a contribution is due
FiniteCashPurchaseDue ==
    /\ pc = "purchase"
    /\ purchase_enabled(withdrawal_mode_active)
    /\ ~IsNone(current_balance)
    /\ RGt(DesiredContribution, Zero)

\* C30: with finite cash, on every day a contribution is due the amount
\* invested is at least min(desired contribution, cash), for every
\* margin_ratio.
C30_InvestsAllAvailable ==
    [][FiniteCashPurchaseDue =>
          RGe(RSub(total_cost_basis', total_cost_basis),
              RMin(DesiredContribution, current_balance))]_vars

\* max_investment_capacity: what may still be added to the portfolio
BuyingPower ==
    RMax(Zero,
         RSub(RMul(RSub(RAdd(RMul(total_shares, price),
                             RMax(Zero, current_balance)),
                        borrowed_amount),
                   cfg.margin_ratio),
              RMul(total_shares, price)))

\* C30 (as the code has it): with finite cash, on every day a contribution
\* is due the amount invested is min(desired contribution, cash) without
\* margin; with margin it is the desired contribution when the cash covers
\* it and min(desired contribution, buying power) otherwise, which is less
\* than the cash when the buying power is.
C30_InvestsAvailableWithinBuyingPower ==
    [][FiniteCashPurchaseDue =>
          RSub(total_cost_basis', total_cost_basis) =
              IF ~RGt(cfg.margin_ratio, One)
              THEN RMin(DesiredContribution, current_balance)
              ELSE IF RGe(current_balance, DesiredContribution)
              THEN DesiredContribution
              ELSE RMin(DesiredContribution, BuyingPower)]_vars

\* C30 case: with margin, a contribution was due on a later day, less than
\* the contribution was invested and cash is left over
C30_Witness ==
    /\ pc = "record"
    /\ day > 1
    /\ invocations.purchase = 1
    /\ ~IsNone(cfg.account_balance)
    /\ RGt(cfg.margin_ratio, One)
    /\ cfg.frequency = "DAILY"
    /\ ~cfg.reinvest
    /\ RGt(total_shares, yesterday.shares)
    /\ RLt(RMul(RSub(total_shares, yesterday.shares), price), cfg.amount)
    /\ RGt(current_balance, Zero)

\* ---- C31 ---------------------------------------------------------------
\* shares * price + cash - debt at the day's price, with finite cash
EquityAtPrice(shares, cash, debt) ==
    RSub(RAdd(RMul(shares, price), cash), debt)

\* C31: with finite cash no step creates or destroys value: at the day's
\* price, equity is unchanged by the margin call step, the threshold step
\* and the purchase step, falls by exactly the amount withdrawn in the
\* withdrawal step and by exactly the interest charged in the interest step,
\* and rises by exactly the dividend income in the dividend step.
C31_StepsConserveValue ==
    [][(~IsNone(cfg.account_balance)
        /\ pc \in {"margin", "threshold", "withdrawal", "dividend",
                    "interest", "purchase"}) =>
          RSub(EquityAtPrice(total_shares', current_balance',
                             borrowed_amount'),
               EquityAtPrice(total_shares, current_balance,
                             borrowed_amount)) =
              CASE pc = "withdrawal" ->
                       RNeg(RSub(total_withdrawn', total_withdrawn))
                [] pc = "interest" ->
                       RNeg(RSub(total_interest_paid', total_interest_paid))
                [] pc = "dividend" ->
                       RSub(cumulative_dividends', cumulative_dividends)
                [] OTHER -> Zero]_vars

\* ---- C32 ---------------------------------------------------------------
\* C32: with finite cash, available_principal + total_invested is the initial
\* account balance in every state, so after every day; the two move in the
\* purchase step alone, and what dividend cash or sale proceeds buy later
\* is not counted as invested.
C32_PrincipalPlusInvestedIsAccountBalance ==
    /\ [](~IsNone(cfg.account_balance) =>
              /\ RAdd(available_principal, total_invested) =
                     cfg.account_balance
              /\ RGe(available_principal, Zero))
    /\ [][(~IsNone(cfg.account_balance) /\ pc # "purchase") =>
              UNCHANGED <<available_principal, total_invested>>]_vars

\* C32 case: without margin, the whole account balance has been invested
\* and a purchase of today was paid with cash that came in later
C32_Witness ==
    /\ pc = "record"
    /\ ~IsNone(cfg.account_balance)
    /\ cfg.margin_ratio = One
    /\ invocations.purchase = 1
    /\ RGt(total_shares, yesterday.shares)
    /\ available_principal = Zero
    /\ RGt(total_cost_basis, cfg.account_balance)

\* ---- C33 ---------------------------------------------------------------
\* C33: with finite cash, a charge of i = debt * (rate + markup) / 12 is paid
\* from cash when cash >= i (cash falls by i, the debt is unchanged);
\* otherwise the cash becomes 0 and the debt rises by exactly i - cash; in
\* both cases the interest returned for recording is i.
C33_InterestPaidFromCashThenCapitalised ==
    (handler_call.status = "returned"
     /\ ~IsNone(handler_call.current_balance)) =>
        /\ handler_call.value.interest_charge =
               MonthCharge(handler_call.borrowed_amount,
                           handler_call.fed_rate)
        /\ IF RGe(handler_call.current_balance,
                  handler_call.value.interest_charge)
           THEN /\ handler_call.value.new_balance =
                       RSub(handler_call.current_balance,
                            handler_call.value.interest_charge)
                /\ handler_call.value.new_borrowed_amount =
                       handler_call.borrowed_amount
           ELSE /\ handler_call.value.new_balance = Zero
                /\ handler_call.value.new_borrowed_amount =
                       RAdd(handler_call.borrowed_amount,
                            RSub(handler_call.value.interest_charge,
                                 handler_call.current_balance))

\* C33 case: the handler has returned on a charge larger than the cash, with
\* some cash to pay a part of it
C33_Witness ==
    /\ handler_call.status = "returned"
    /\ ~IsNone(handler_call.current_balance)
    /\ RGt(handler_call.current_balance, Zero)
    /\ RLt(handler_call.current_balance, handler_call.value.interest_charge)
    /\ RGt(handler_call.value.new_borrowed_amount,
           handler_call.borrowed_amount)

\* ---- C34 ---------------------------------------------------------------
\* What the account is worth beyond its debt when a withdrawal is asked for;
\* unbounded cash counts for nothing
NetWorthAtCall ==
    RSub(RAdd(CashOrZero(handler_call.current_balance),
              RMul(handler_call.total_shares, handler_call.price)),
         handler_call.borrowed_amount)

\* C34: for every withdrawal the debt is repaid before anything is paid out
\* and shares are never oversold: shares_sold <= shares held, an amount
\* withdrawn > 0 implies a debt of 0 afterwards, and the amount withdrawn is
\* min(requested amount, max(0, cash + shares * price - debt)).
C34_DebtFirstAndNoOverselling ==
    handler_call.status = "returned" =>
        /\ RLe(handler_call.value.shares_sold, handler_call.total_shares)
        /\ RGe(handler_call.value.shares_sold, Zero)
        /\ RGt(handler_call.value.amount_withdrawn, Zero) =>
               handler_call.value.new_borrowed_amount = Zero
        /\ handler_call.value.amount_withdrawn =
               RMin(handler_call.withdrawal_amount,
                    RMax(Zero, NetWorthAtCall))

\* C34 case: a withdrawal on an account with debt that was worth less than
\* debt plus request: every share is sold, the debt is cleared and a part
\* of the request is paid out
C34_Witness ==
    /\ handler_call.status = "returned"
    /\ RGt(handler_call.borrowed_amount, Zero)
    /\ RGt(handler_call.total_shares, Zero)
    /\ handler_call.value.shares_sold = handler_call.total_shares
    /\ handler_call.value.new_borrowed_amount = Zero
    /\ RGt(handler_call.value.amount_withdrawn, Zero)
    /\ RLt(handler_call.value.amount_withdrawn,
           handler_call.withdrawal_amount)

\* ---- C35 ---------------------------------------------------------------
\* The 'withdrawal' events recorded so far, by their index
WithdrawalEvents ==
    {k \in 1..Len(withdrawal_details) :
        withdrawal_details[k].event_type = "withdrawal"}

\* C35: while withdrawal mode is active and monthly_withdrawal_amount > 0,
\* the withdrawal step records a 'withdrawal' event exactly when none is
\* recorded for the calendar month of the day, so one a month, on the first
\* day of the month that reaches the step, the activation day included;
\* no other step records one, and two never fall in the same month.
C35_OneWithdrawalEachMonth ==
    /\ [](\A j, k \in WithdrawalEvents :
              j < k => withdrawal_details[j].month < withdrawal_details[k].month)
    /\ [][IF /\ pc = "withdrawal"
              /\ withdrawal_mode_active
              /\ ~IsNone(cfg.monthly_withdrawal_amount)
              /\ cfg.monthly_withdrawal_amount # Zero
              /\ \A k \in WithdrawalEvents :
                     withdrawal_details[k].month # date.month
           THEN /\ Len(withdrawal_details') = Len(withdrawal_details) + 1
                /\ withdrawal_details'[Len(withdrawal_details')].event_type =
                       "withdrawal"
                /\ withdrawal_details'[Len(withdrawal_details')].date = day
                /\ withdrawal_details'[Len(withdrawal_details')].month =
                       date.month
           ELSE \A k \in 1..Len(withdrawal_details') :
                    withdrawal_details'[k].event_type = "withdrawal" =>
                        /\ k <= Len(withdrawal_details)
                        /\ withdrawal_details'[k] = withdrawal_details[k]]_vars

\* C35 case: a withdrawal was made on the day withdrawal mode began and the
\* next one in the month after
C35_Witness ==
    \E j, k \in WithdrawalEvents :
        /\ withdrawal_details[j].date = withdrawal_mode_start_date
        /\ withdrawal_details[k].month = withdrawal_details[j].month + 1

\* ---- C36 ---------------------------------------------------------------
\* if should_invest or first_day: the recurring amount is part of today's
\* contribution
RecurringContributionDue ==
    \/ should_invest_today(date, cfg.frequency,
                           last_investment_month).should_invest
    \/ first_day

\* The day is the first simulated day of its calendar month
FirstSimulatedDayOfMonth == day = 1 \/ date.month # yesterday.month

\* C36: with MONTHLY frequency, while accumulating, the purchase step
\* attempts the recurring contribution exactly on the first simulated day of
\* each calendar month, the first day of the run included: on such a day a
\* contribution the cash covers is invested in full, and on every other day
\* the step buys nothing.
C36_MonthlyContributionOnFirstDayOfMonth ==
    [][(pc = "purchase" /\ cfg.frequency = "MONTHLY"
        /\ purchase_enabled(withdrawal_mode_active)) =>
          /\ RecurringContributionDue <=> FirstSimulatedDayOfMonth
          /\ (FirstSimulatedDayOfMonth /\ CashCovers(DesiredContribution)) =>
                 total_cost_basis' =
                     RAdd(total_cost_basis, DesiredContribution)
          /\ ~FirstSimulatedDayOfMonth =>
                 UNCHANGED <<total_shares, total_cost_basis, total_invested,
                             current_balance, borrowed_amount>>]_vars

\* C36 case: a MONTHLY run of three days bought nothing on its second day,
\* with cash at hand, and bought on its third day, the first of a new month
C36_Witness ==
    /\ pc = "record"
    /\ cfg.frequency = "MONTHLY"
    /\ RGt(cfg.amount, Zero)
    /\ ~withdrawal_mode_active
    /\ day = 3
    /\ date.month # yesterday.month
    /\ rows[2].invested = rows[1].invested
    /\ RGt(rows[2].balance, Zero)
    /\ RGt(total_invested, rows[2].invested)

\* ---- C37 ---------------------------------------------------------------
\* The days, among those recorded, on which interest was charged: the
\* cumulative interest of the day's snapshot exceeds that of the day before
ChargeDays ==
    {i \in 1..Len(rows) :
        RGt(rows[i].interest,
            IF i = 1 THEN Zero ELSE rows[i - 1].interest)}

\* C37: interest is charged at most once in any calendar month: the months
\* of the days with a charge increase strictly, a step charges only in a
\* month that has no charge yet, and it calls the interest handler at most
\* once.
C37_OneInterestChargeAMonth ==
    /\ [](/\ \A i, j \in ChargeDays :
                i < j => rows[i].month < rows[j].month
          /\ invocations.interest <= 1)
    /\ [][total_interest_paid' # total_interest_paid =>
              /\ pc = "interest"
              /\ \A i \in ChargeDays : rows[i].month < date.month]_vars

\* C37 case: interest was charged on two days of a run
C37_Witness ==
    \E i, j \in ChargeDays : i < j

\* ---- C38 ---------------------------------------------------------------
\* The equity of a recorded day: portfolio value + cash - debt
RowEquity(row) ==
    RSub(RAdd(row.portfolio, CashOrZero(row.balance)), row.borrowed)

\* The daily equity of the run never decreases from one day to the next
EquityNeverDecreases ==
    \A i \in 2..Len(rows) :
        RGe(RowEquity(rows[i]), RowEquity(rows[i - 1]))

\* C38: summary.actual_max_drawdown is 0 for every run whose daily equity
\* never decreases from one day to the next.
C38_NoDeclineNoDrawdown ==
    (pc = "returned" /\ EquityNeverDecreases)
        => result.summary.actual_max_drawdown = Zero

\* ---- C39 ---------------------------------------------------------------
\* C39: no interest is charged on the first simulated day: the debt is 0
\* when the interest step runs on day 1, the branch of the first iteration
\* never charges, and the cumulative interest is 0 throughout day 1 and in
\* its snapshot, whether or not the purchase of day 1 borrows.
C39_NoInterestOnFirstDay ==
    /\ []((day = 1 /\ pc \in {"margin", "insolvency", "threshold",
                               "withdrawal", "dividend", "interest"})
              => borrowed_amount = Zero)
    /\ [](day = 1 => total_interest_paid = Zero)
    /\ [](Len(rows) >= 1 => rows[1].interest = Zero)
    /\ [][(pc = "interest" /\ last_interest_month = NoMonth)
              => /\ day = 1
                 /\ invocations'.interest = 0
                 /\ total_interest_paid' = total_interest_paid
                 /\ last_interest_month' = date.month]_vars

\* C39 case: the purchase of day 1 has borrowed, and the day ends with no
\* interest charged
C39_Witness ==
    /\ day = 1
    /\ pc = "record"
    /\ invocations.purchase = 1
    /\ RGt(borrowed_amount, Zero)
    /\ total_interest_paid = Zero

=============================================================================
